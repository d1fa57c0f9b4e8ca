---------------------------- MODULE SandboxProofs ----------------------------
(***************************************************************************)
(* Proofs about what a sandbox rests on and is given: its image in the     *)
(* cache (ImageCache), for any sandboxes, retention and clock; the order   *)
(* of a setup pass (GuestSetup), for any number of boots and daemons; the  *)
(* skills a pass places (GuestPlacement), for any harnesses; who may       *)
(* reach it (Access), for any agents, names, host keys and releases;       *)
(* the bytes of a port forward (GuestForward), for any connections,        *)
(* lengths, boots and losses; and the files and skills that are placed     *)
(* (GuestFiles, SkillInstall), for any passes, installs and contents.      *)
(***************************************************************************)
EXTENDS Access, ImageCache, GuestSetup, GuestPlacement, GuestForward, SkillInstall,
        FiniteSetTheorems, SequenceTheorems, TLAPS

-----------------------------------------------------------------------------
(* The image cache.                                                        *)

ReadPCs == {"writes", "tags"}
RecordPCs == {"holds", "tags", "boots", "stopped", "releases", "untags", "removes record"}

CacheIsTyped ==
    /\ stored \in BOOLEAN /\ tagged \in BOOLEAN /\ migrated \in BOOLEAN
    /\ cacheUsed \in 0..MaxTime /\ now \in 1..MaxTime /\ lastUse \in 0..MaxTime
    /\ held \subseteq CacheUsers /\ recorded \subseteq CacheUsers /\ runtimes \subseteq CacheUsers
    /\ everHeld \subseteq CacheUsers
    /\ task \in [CacheUsers -> [pc : TaskPCs, goal : {"create", "start"}, again : BOOLEAN, reuses : BOOLEAN]]
    /\ sweep \in [pc : {"idle", "reads", "lists", "removes"}, recorded : SUBSET CacheUsers, unused : SUBSET CacheEntries]
    /\ migration \in [done : SUBSET CacheUsers, pinned : BOOLEAN]
    /\ home \in {"closed", "migrating", "open"}
    /\ cacheUsed <= now /\ lastUse <= now

(* A pass has the lock alone, and only an open home has passes and tasks.  *)
SweepIsAlone == sweep.pc # "idle" => home = "open" /\ \A b \in CacheUsers : task[b].pc \notin ReadPCs
ClosedIsQuiet == home # "open" => \A b \in CacheUsers : task[b].pc \in {"none", "stopped", "gone"}

(* What a task is at, and whether its sandbox has a record.                *)
RecordIsTheTask(b) ==
    /\ task[b].pc \in {"none", "saves", "gone"} => b \notin recorded
    /\ task[b].pc \in {"fetches", "writes"} => (b \in recorded <=> task[b].again)
    /\ task[b].pc \in RecordPCs => b \in recorded
    /\ b \in everHeld => b \in recorded \/ task[b].pc = "gone"
    /\ task[b].pc \in {"fetches", "writes", "holds", "tags"} /\ task[b].goal = "create" => b \notin everHeld

(* Whoever counts on files that it saw: they stay until it is done.        *)
ReadersHaveFiles ==
    \A b \in CacheUsers : task[b].pc = "tags" \/ (task[b].pc = "writes" /\ task[b].reuses) => stored

(* An entry about to go has handed the image over to the cache.            *)
ReleaseIsCovered == \A b \in CacheUsers : task[b].pc = "untags" /\ b \in held => cacheUsed # 0

(* A recorded sandbox that held the image has an entry, or the cache has.  *)
RecordKeepsAnEntry == \A b \in everHeld \cap recorded : b \in held \/ cacheUsed # 0

(* What a pass has read is what it needs to know.                          *)
SweepKnowsRecords ==
    /\ sweep.pc \in {"lists", "removes"} => everHeld \cap recorded \subseteq sweep.recorded
    /\ sweep.pc = "removes" =>
        /\ sweep.unused \cap sweep.recorded = {}
        /\ "cache" \in sweep.unused => sweep.recorded = {} /\ (cacheUsed # 0 => Expired(cacheUsed))

(* The cache entry is as old as the last use, or was left to expire.       *)
UseIsNoted ==
    /\ cacheUsed # 0 => lastUse = cacheUsed
    /\ cacheUsed = 0 /\ lastUse # 0 => lastUse + Retention <= now

MigrationPins == home = "migrating" /\ migration.pinned /\ migration.done # {} => runtimes # {}

CacheInv ==
    /\ CacheIsTyped /\ SweepIsAlone /\ ClosedIsQuiet /\ (\A b \in CacheUsers : RecordIsTheTask(b))
    /\ held \subseteq everHeld /\ ReadersHaveFiles /\ ReleaseIsCovered /\ RecordKeepsAnEntry
    /\ SweepKnowsRecords /\ UseIsNoted /\ MigrationPins /\ NamedIsStored

Tasks == [pc : TaskPCs, goal : {"create", "start"}, again : BOOLEAN, reuses : BOOLEAN]

LEMMA CacheNumbers ==
    ASSUME CacheIsTyped
    PROVE  /\ now \in Nat /\ now # 0 /\ cacheUsed \in Nat /\ lastUse \in Nat /\ MaxTime \in Nat
           /\ Retention \in Nat /\ Retention # 0
           /\ now \in 0..MaxTime /\ "cache" \notin CacheUsers /\ "tag" \notin CacheUsers
           /\ \A b \in CacheUsers : task[b] \in Tasks
BY ImageCacheConstants DEF CacheIsTyped, Tasks

LEMMA CacheParts ==
    ASSUME CacheInv
    PROVE  /\ CacheIsTyped /\ SweepIsAlone /\ ClosedIsQuiet /\ (\A b \in CacheUsers : RecordIsTheTask(b))
           /\ held \subseteq everHeld /\ ReadersHaveFiles /\ ReleaseIsCovered /\ RecordKeepsAnEntry
           /\ SweepKnowsRecords /\ UseIsNoted /\ MigrationPins /\ NamedIsStored
BY DEF CacheInv

LEMMA TaskMoves ==
    ASSUME CacheIsTyped, NEW b \in CacheUsers, NEW pc \in TaskPCs, Becomes(b, pc)
    PROVE  \E r \in Tasks : /\ task' = [task EXCEPT ![b] = r] /\ r.pc = pc
                            /\ r.goal = task[b].goal /\ r.again = task[b].again /\ r.reuses = task[b].reuses
<1> DEFINE r == [task[b] EXCEPT !.pc = pc]
<1>2. /\ r \in Tasks /\ r.pc = pc
      /\ r.goal = task[b].goal /\ r.again = task[b].again /\ r.reuses = task[b].reuses
    BY CacheNumbers DEF Tasks
<1> QED
    BY <1>2 DEF Becomes

LEMMA OneTask ==
    ASSUME CacheIsTyped, NEW b \in CacheUsers, NEW r \in Tasks, task' = [task EXCEPT ![b] = r]
    PROVE  /\ task' \in [CacheUsers -> Tasks] /\ task'[b] = r
           /\ \A c \in CacheUsers \ {b} : task'[c] = task[c]
BY DEF CacheIsTyped, Tasks

(* A task goes on and leaves the catalog alone.                            *)
LEMMA TaskGoesOn ==
    ASSUME CacheInv, NEW b \in CacheUsers, NEW r \in Tasks, task' = [task EXCEPT ![b] = r], home = "open",
           UNCHANGED <<stored, cacheUsed, tagged, held, sweep, home, migration, migrated, now, everHeld, lastUse>>,
           runtimes' \subseteq CacheUsers, recorded' \subseteq CacheUsers, recorded' \ {b} = recorded \ {b},
           r.pc \in ReadPCs => sweep.pc = "idle",
           r.pc = "tags" \/ (r.pc = "writes" /\ r.reuses) => stored,
           r.pc # "untags",
           b \in everHeld /\ b \in recorded' => b \in recorded,
           RecordIsTheTask(b)'
    PROVE  CacheInv'
<1>3. CacheIsTyped'
    BY OneTask, CacheParts DEF CacheIsTyped, Tasks
<1>4. SweepIsAlone' /\ ClosedIsQuiet' /\ MigrationPins'
    BY OneTask, CacheParts DEF SweepIsAlone, ClosedIsQuiet, MigrationPins
<1>5. \A c \in CacheUsers : RecordIsTheTask(c)'
    BY CacheParts DEF RecordIsTheTask
<1> QED
    BY <1>3, <1>4, <1>5, OneTask, CacheParts DEF CacheInv, UseIsNoted, NamedIsStored, Named,
       RecordKeepsAnEntry, SweepKnowsRecords, Expired, ReadersHaveFiles, ReleaseIsCovered

-----------------------------------------------------------------------------
(* The tasks.                                                              *)

LEMMA BeginsAreRight ==
    ASSUME CacheInv, NEW b \in CacheUsers, Resolves(b) \/ Fetches(b) \/ FetchesAgain(b) \/ StartsRuntime(b)
    PROVE  CacheInv'
<1>2. /\ home = "open"
      /\ UNCHANGED <<stored, cacheUsed, tagged, held, recorded, runtimes, sweep, home, migration, migrated, now, everHeld,
                     lastUse>>
    BY DEF Resolves, Fetches, FetchesAgain, StartsRuntime, Does, catalogVars
<1>3. PICK r \in Tasks :
        /\ task' = [task EXCEPT ![b] = r]
        /\ \/ /\ task[b].pc = "none" /\ r.pc = "fetches" /\ r.again = FALSE
           \/ /\ task[b].pc = "fetches" /\ sweep.pc = "idle" /\ r.pc = "writes" /\ r.reuses = stored
              /\ r.again = task[b].again /\ r.goal = task[b].goal
           \/ /\ task[b].pc = "holds" /\ r.pc = "fetches" /\ r.again = TRUE /\ r.goal = task[b].goal
           \/ /\ task[b].pc = "stopped" /\ r.pc = "holds" /\ r.goal = "start"
  <2>1. CASE Resolves(b)
    <3>1. /\ Task("fetches", "create") \in Tasks
          /\ Task("fetches", "create").pc = "fetches" /\ Task("fetches", "create").again = FALSE
        BY DEF Task, Tasks, TaskPCs
    <3> QED
        BY <2>1, <3>1 DEF Resolves, Does
  <2>2. CASE Fetches(b)
    <3> DEFINE r == [task[b] EXCEPT !.pc = "writes", !.reuses = stored]
    <3>1. /\ r \in Tasks /\ r.pc = "writes" /\ r.reuses = stored /\ r.again = task[b].again /\ r.goal = task[b].goal
        BY CacheParts, CacheNumbers DEF CacheIsTyped, Tasks, TaskPCs
    <3>2. task' = [task EXCEPT ![b] = r] /\ task[b].pc = "fetches" /\ sweep.pc = "idle"
        BY <2>2 DEF Fetches, Does, CanRead
    <3> HIDE DEF r
    <3> QED
        BY <3>1, <3>2
  <2>3. CASE FetchesAgain(b)
    <3> DEFINE r == [task[b] EXCEPT !.pc = "fetches", !.again = TRUE]
    <3>1. /\ r \in Tasks /\ r.pc = "fetches" /\ r.again = TRUE /\ r.goal = task[b].goal
        BY CacheParts, CacheNumbers DEF Tasks, TaskPCs
    <3>2. task' = [task EXCEPT ![b] = r] /\ task[b].pc = "holds"
        BY <2>3 DEF FetchesAgain, Does
    <3> HIDE DEF r
    <3> QED
        BY <3>1, <3>2
  <2>4. CASE StartsRuntime(b)
    <3>1. Task("holds", "start") \in Tasks /\ Task("holds", "start").pc = "holds" /\ Task("holds", "start").goal = "start"
        BY DEF Task, Tasks, TaskPCs
    <3> QED
        BY <2>4, <3>1 DEF StartsRuntime, Does
  <2> QED
      BY <2>1, <2>2, <2>3, <2>4
<1>4. task'[b] = r
    BY <1>3, OneTask, CacheParts, CacheNumbers
<1> QED
    BY <1>2, <1>3, TaskGoesOn, <1>4, CacheParts, CacheNumbers DEF CacheIsTyped, ReadPCs,
       RecordIsTheTask, RecordPCs

(* A fetch or a hold fails: a creation has held nothing, so its record can *)
(* go.                                                                     *)
LEMMA FailuresAreRight ==
    ASSUME CacheInv, NEW b \in CacheUsers, FetchFails(b) \/ HoldFailsFor(b)
    PROVE  CacheInv'
<1> DEFINE pc == IF b \in recorded' THEN "stopped" ELSE "none"
<1>4. pc \in TaskPCs /\ pc \in {"stopped", "none"} /\ (pc = "stopped" <=> b \in recorded')
    BY DEF TaskPCs
<1>5. PICK r \in Tasks : task' = [task EXCEPT ![b] = r] /\ r.pc = pc
    BY <1>4, TaskMoves, CacheParts, CacheNumbers DEF FetchFails, HoldFailsFor, Does, catalogVars
<1> HIDE DEF pc
<1>6. task'[b] = r
    BY <1>5, OneTask, CacheParts, CacheNumbers
<1> QED
    BY <1>5, TaskGoesOn, <1>4, <1>6, CacheParts, CacheNumbers DEF ReadPCs, CacheIsTyped,
       RecordIsTheTask, RecordPCs, ClosedIsQuiet, FetchFails, HoldFailsFor, Does, catalogVars

(* Records and runtimes come and go beside the catalog.                    *)
LEMMA RecordsAreRight ==
    ASSUME CacheInv, NEW b \in CacheUsers,
           SavesRecord(b) \/ Looks(b) \/ CreatesRuntime(b) \/ DeletesRuntime(b) \/ TakeOverFails(b) \/ RemovesItsRecord(b)
    PROVE  CacheInv'
<1>1. CacheIsTyped /\ RecordIsTheTask(b) /\ NamedIsStored /\ task[b] \in Tasks
    BY CacheParts, CacheNumbers
<1>2. /\ UNCHANGED <<stored, cacheUsed, tagged, held, sweep, home, migration, migrated, now, everHeld, lastUse>>
      /\ home = "open" /\ runtimes' \in {runtimes, runtimes \cup {b}, runtimes \ {b}}
    BY DEF SavesRecord, Looks, CreatesRuntime, DeletesRuntime, TakeOverFails, RemovesItsRecord, Does, catalogVars
<1>3. PICK pc \in TaskPCs :
        /\ Becomes(b, pc)
        /\ \/ task[b].pc = "saves" /\ pc = "holds" /\ recorded' = recorded \cup {b}
           \/ /\ task[b].pc = "holds" /\ pc \in {"boots", "stopped", "tags"} /\ recorded' = recorded
              /\ sweep.pc = "idle" /\ Named # {}
           \/ task[b].pc = "boots" /\ pc = "stopped" /\ recorded' = recorded
           \/ task[b].pc = "stopped" /\ pc = "releases" /\ recorded' = recorded
           \/ task[b].pc = "releases" /\ pc = "removes record" /\ recorded' = recorded
           \/ task[b].pc = "removes record" /\ pc = "gone" /\ recorded' = recorded \ {b}
    BY DEF SavesRecord, Looks, AfterHold, CreatesRuntime, DeletesRuntime, TakeOverFails, RemovesItsRecord, Does, CanRead,
           TaskPCs
<1>4. PICK r \in Tasks : task' = [task EXCEPT ![b] = r] /\ r.pc = pc /\ r.goal = task[b].goal
    BY ZenonT(60), <1>1, <1>3, TaskMoves
<1>5. task'[b] = r
    BY <1>1, <1>4, OneTask
<1> QED
    BY <1>2, <1>4, TaskGoesOn, <1>1, <1>3, <1>5 DEF ReadPCs, NamedIsStored, CacheIsTyped,
       RecordIsTheTask, RecordPCs

-----------------------------------------------------------------------------
(* The entries of the catalog.                                             *)

(* The files are there for the entry: no pass ran since the fetch read.    *)
LEMMA RecordsImageIsRight ==
    ASSUME CacheInv, NEW b \in CacheUsers, RecordsImage(b)
    PROVE  CacheInv'
<1>2. /\ home = "open" /\ task[b].pc = "writes" /\ cacheUsed' = now /\ lastUse' = now
      /\ stored' = (stored \/ ~task[b].reuses) /\ Becomes(b, IF task[b].again THEN "holds" ELSE "saves")
      /\ UNCHANGED <<tagged, held, recorded, runtimes, sweep, home, migration, migrated, now, everHeld>>
    BY DEF RecordsImage, Does
<1>4. PICK r \in Tasks : /\ task' = [task EXCEPT ![b] = r] /\ r.pc = (IF task[b].again THEN "holds" ELSE "saves")
                         /\ r.goal = task[b].goal
  <2>1. (IF task[b].again THEN "holds" ELSE "saves") \in TaskPCs
      BY DEF TaskPCs
  <2> QED
      BY <1>2, <2>1, TaskMoves, CacheParts
<1>5. /\ task' \in [CacheUsers -> Tasks] /\ task'[b] = r
      /\ \A c \in CacheUsers \ {b} : task'[c] = task[c]
    BY <1>4, OneTask, CacheParts
<1>7. CacheIsTyped'
    BY <1>2, <1>5, CacheParts DEF CacheIsTyped, Tasks
<1>8. SweepIsAlone' /\ ClosedIsQuiet' /\ MigrationPins'
    BY <1>2, <1>4, <1>5, CacheParts DEF SweepIsAlone, ClosedIsQuiet, MigrationPins, ReadPCs
<1>9. \A c \in CacheUsers : RecordIsTheTask(c)'
    BY <1>2, <1>4, <1>5, CacheParts DEF RecordIsTheTask, RecordPCs
<1> QED
    BY <1>7, <1>8, <1>9, <1>2, CacheNumbers, CacheParts DEF CacheInv, UseIsNoted, SweepIsAlone,
       ReadPCs, SweepKnowsRecords, ReadersHaveFiles, ReleaseIsCovered, RecordKeepsAnEntry,
       NamedIsStored

LEMMA TagsIsRight ==
    ASSUME CacheInv, NEW b \in CacheUsers, Tags(b)
    PROVE  CacheInv'
<1>2. /\ home = "open" /\ task[b].pc = "tags" /\ held' = held \cup {b} /\ everHeld' = everHeld \cup {b}
      /\ Becomes(b, AfterHold(b))
      /\ UNCHANGED <<stored, cacheUsed, tagged, recorded, runtimes, sweep, home, migration, migrated, now, lastUse>>
    BY DEF Tags, Does
<1>3. PICK r \in Tasks : task' = [task EXCEPT ![b] = r] /\ r.pc \in {"boots", "stopped"}
  <2>1. AfterHold(b) \in TaskPCs /\ AfterHold(b) \in {"boots", "stopped"}
      BY DEF AfterHold, TaskPCs
  <2> QED
      BY <1>2, <2>1, TaskMoves, CacheParts
<1>5. stored /\ sweep.pc = "idle" /\ b \in recorded
    BY <1>2, CacheParts DEF ReadersHaveFiles, SweepIsAlone, ReadPCs, RecordIsTheTask, RecordPCs
<1>6. CacheIsTyped'
    BY <1>2, <1>3, OneTask, CacheParts DEF CacheIsTyped, Tasks
<1>7. SweepIsAlone' /\ ClosedIsQuiet' /\ MigrationPins'
    BY <1>2, <1>5, CacheParts DEF SweepIsAlone, ClosedIsQuiet, MigrationPins
<1>10. ReleaseIsCovered'
    BY <1>2, <1>3, OneTask, CacheParts DEF ReleaseIsCovered
<1> QED
    BY <1>6, <1>7, <1>10, <1>2, <1>5, <1>3, OneTask, CacheParts DEF CacheInv, SweepKnowsRecords,
       UseIsNoted, ReadersHaveFiles, RecordKeepsAnEntry, NamedIsStored, RecordIsTheTask, RecordPCs

(* A release refreshes the cache entry while its own still names the image. *)
LEMMA TakesOverIsRight ==
    ASSUME CacheInv, NEW b \in CacheUsers, TakesOver(b)
    PROVE  CacheInv'
<1>2. /\ home = "open" /\ task[b].pc = "releases" /\ sweep.pc = "idle" /\ Becomes(b, "untags")
      /\ cacheUsed' = IF b \in held THEN now ELSE cacheUsed
      /\ lastUse' = IF b \in held THEN now ELSE lastUse
      /\ UNCHANGED <<stored, tagged, held, recorded, runtimes, sweep, home, migration, migrated, now, everHeld>>
    BY DEF TakesOver, Does, CanRead
<1>4. PICK r \in Tasks : task' = [task EXCEPT ![b] = r] /\ r.pc = "untags"
  <2>1. "untags" \in TaskPCs
      BY DEF TaskPCs
  <2> QED
      BY <1>2, <2>1, TaskMoves, CacheParts
<1>7. CacheIsTyped'
    BY <1>2, <1>4, OneTask, CacheParts DEF CacheIsTyped, Tasks
<1>9. \A c \in CacheUsers : RecordIsTheTask(c)'
    BY <1>2, <1>4, OneTask, CacheParts DEF RecordIsTheTask, RecordPCs
<1>10. /\ held' \subseteq everHeld' /\ ReadersHaveFiles' /\ RecordKeepsAnEntry'
    BY <1>2, <1>4, OneTask, CacheNumbers, CacheParts DEF ReadersHaveFiles, RecordKeepsAnEntry
<1>11. ReleaseIsCovered'
    BY <1>2, <1>4, OneTask, CacheNumbers, CacheParts DEF ReleaseIsCovered
<1> QED
    BY <1>7, <1>9, <1>10, <1>11, <1>2, CacheNumbers, CacheParts DEF CacheInv, Named, NamedIsStored,
       UseIsNoted, SweepIsAlone, ClosedIsQuiet, MigrationPins, SweepKnowsRecords

(* What the removal of one entry leaves.                                   *)
LEMMA RemoveLocal ==
    ASSUME CacheIsTyped, NamedIsStored, NEW e \in CacheEntries, remove_local(e)
    PROVE  /\ stored' \in BOOLEAN /\ tagged' \in BOOLEAN /\ cacheUsed' \in {cacheUsed, 0}
           /\ held' \subseteq held /\ held \subseteq held' \cup {e}
           /\ e # "cache" => cacheUsed' = cacheUsed
           /\ NamedIsStored' /\ (stored => stored' \/ Named' = {})
BY DEF remove_local, catalogVars, Named, CacheIsTyped, NamedIsStored

LEMMA UntagsIsRight ==
    ASSUME CacheInv, NEW b \in CacheUsers, Untags(b)
    PROVE  CacheInv'
<1>4. PICK r \in Tasks : task' = [task EXCEPT ![b] = r] /\ r.pc = "removes record"
  <2>1. "removes record" \in TaskPCs
      BY DEF TaskPCs
  <2> QED
      BY <2>1, TaskMoves, CacheParts DEF Untags, Does
<1>5. /\ task' \in [CacheUsers -> Tasks] /\ task'[b] = r
      /\ \A c \in CacheUsers \ {b} : task'[c] = task[c]
    BY <1>4, OneTask, CacheParts
<1>6. /\ stored' \in BOOLEAN /\ tagged' \in BOOLEAN /\ cacheUsed' = cacheUsed
      /\ held' \subseteq held /\ held \subseteq held' \cup {b}
      /\ NamedIsStored' /\ (stored => stored' \/ Named' = {})
    BY RemoveLocal, CacheNumbers, CacheParts DEF CacheEntries, Untags, Does
<1>7. (b \in held => cacheUsed # 0) /\ (b \notin held => UNCHANGED <<stored, cacheUsed, tagged, held>>)
    BY CacheNumbers, CacheParts DEF ReleaseIsCovered, Named, remove_local, catalogVars,
       CacheEntries, Untags, Does
<1>8. stored => stored'
    BY <1>6, <1>7 DEF Named
<1>10. SweepIsAlone' /\ ClosedIsQuiet' /\ MigrationPins' /\ UseIsNoted'
    BY <1>4, <1>5, <1>6, CacheParts DEF SweepIsAlone, ClosedIsQuiet, MigrationPins, ReadPCs,
       UseIsNoted, Untags, Does
<1>11. \A c \in CacheUsers : RecordIsTheTask(c)'
    BY <1>4, <1>5, CacheParts DEF RecordIsTheTask, RecordPCs, Untags, Does
<1>12. /\ held' \subseteq everHeld' /\ ReadersHaveFiles' /\ ReleaseIsCovered'
    BY <1>4, <1>5, <1>6, <1>8, CacheParts DEF ReadersHaveFiles, ReleaseIsCovered, Untags, Does
<1> QED
    BY <1>6, <1>10, <1>11, <1>12, <1>7, <1>5, CacheParts DEF CacheInv, SweepKnowsRecords, Expired,
       RecordKeepsAnEntry, CacheIsTyped, Tasks, Untags, Does

-----------------------------------------------------------------------------
(* The removal pass.                                                       *)

(* A pass waits for no one and reads first; nothing else changes.          *)
LEMMA SweepReadsAreRight ==
    ASSUME CacheInv, SweepBegins \/ SweepReadsRecords \/ SweepLists \/ SweepEnds
    PROVE  CacheInv'
<1>2. UNCHANGED <<stored, cacheUsed, tagged, held, recorded, runtimes, task, home, migration, migrated, now, everHeld, lastUse>>
    BY DEF SweepBegins, SweepReadsRecords, SweepLists, SweepEnds, catalogVars
<1>4. /\ sweep' \in [pc : {"idle", "reads", "lists", "removes"}, recorded : SUBSET CacheUsers,
                     unused : SUBSET CacheEntries]
      /\ sweep'.pc # "idle" => home = "open" /\ \A c \in CacheUsers : task[c].pc \notin ReadPCs
      /\ SweepKnowsRecords'
  <2>1. CASE SweepBegins
      BY <2>1 DEF SweepBegins, Idle, CanSweep, Reading, ReadPCs, SweepKnowsRecords
  <2>2. CASE SweepReadsRecords
      BY <2>2, CacheParts DEF SweepReadsRecords, CacheIsTyped, SweepKnowsRecords, SweepIsAlone
  <2>3. CASE SweepLists
      BY <2>3, CacheNumbers, <1>2, CacheParts DEF SweepLists, CacheIsTyped, Unused, Expired,
         SweepKnowsRecords, SweepIsAlone, CacheEntries
  <2>4. CASE SweepEnds
      BY <2>4 DEF SweepEnds, Idle, SweepKnowsRecords
  <2> QED
      BY <2>1, <2>2, <2>3, <2>4
<1>6. SweepIsAlone' /\ ClosedIsQuiet' /\ MigrationPins'
    BY <1>2, <1>4, CacheParts DEF SweepIsAlone, ClosedIsQuiet, MigrationPins
<1> QED
    BY <1>4, <1>6, <1>2, CacheParts DEF CacheInv, UseIsNoted, NamedIsStored, Named,
       ReadersHaveFiles, ReleaseIsCovered, RecordKeepsAnEntry, RecordIsTheTask, CacheIsTyped

(* An entry that goes is no recorded sandbox's, and the cache's goes only  *)
(* when there is no record and it has expired.                             *)
LEMMA SweepRemovesIsRight ==
    ASSUME CacheInv, NEW e \in CacheEntries, SweepRemoves(e)
    PROVE  CacheInv'
<1>3. /\ stored' \in BOOLEAN /\ tagged' \in BOOLEAN /\ cacheUsed' \in {cacheUsed, 0}
      /\ held' \subseteq held /\ held \subseteq held' \cup {e}
      /\ e # "cache" => cacheUsed' = cacheUsed
      /\ NamedIsStored'
    BY RemoveLocal, CacheParts DEF SweepRemoves
<1>6. CacheIsTyped'
    BY CacheNumbers, <1>3, CacheParts DEF CacheIsTyped, SweepRemoves
<1>7. SweepIsAlone' /\ ClosedIsQuiet' /\ MigrationPins'
    BY CacheParts DEF SweepIsAlone, ClosedIsQuiet, MigrationPins, SweepKnowsRecords, SweepRemoves
<1>8. \A c \in CacheUsers : RecordIsTheTask(c)'
    BY CacheParts DEF RecordIsTheTask, SweepRemoves
<1>9. held' \subseteq everHeld' /\ ReadersHaveFiles'
    BY <1>3, CacheParts DEF ReadersHaveFiles, ReadPCs, SweepIsAlone, SweepKnowsRecords, SweepRemoves
<1>10. ReleaseIsCovered'
    BY <1>3, CacheParts DEF RecordIsTheTask, ReleaseIsCovered, SweepIsAlone, SweepKnowsRecords,
       SweepRemoves
<1>11. RecordKeepsAnEntry'
    BY <1>3, CacheParts DEF RecordKeepsAnEntry, SweepIsAlone, SweepKnowsRecords, SweepRemoves
<1>12. SweepKnowsRecords'
    BY <1>3, CacheParts DEF Expired, SweepKnowsRecords, SweepRemoves
<1>13. UseIsNoted'
    BY <1>3, CacheParts DEF UseIsNoted, Expired, SweepIsAlone, SweepKnowsRecords, SweepRemoves
<1> QED
    BY <1>3, <1>6, <1>7, <1>8, <1>9, <1>10, <1>11, <1>12, <1>13 DEF CacheInv

-----------------------------------------------------------------------------
(* The home opens, migrates and closes; time passes.                       *)

(* A record that is migrated holds what the catalog has, or was fetched.   *)
LEMMA MigratesRecordIsRight ==
    ASSUME CacheInv, NEW b \in CacheUsers, MigratesRecord(b)
    PROVE  CacheInv'
<1>2. PICK holds \in BOOLEAN :
        /\ held' = IF holds THEN held \cup {b} ELSE held
        /\ everHeld' = IF holds THEN everHeld \cup {b} ELSE everHeld
        /\ cacheUsed' = IF holds /\ Named = {} THEN now ELSE cacheUsed
        /\ lastUse' = IF holds /\ Named = {} THEN now ELSE lastUse
        /\ stored' = (stored \/ holds)
    BY DEF MigratesRecord
<1>7. CacheIsTyped'
    BY <1>2, CacheParts DEF CacheIsTyped, MigratesRecord
<1>9. \A c \in CacheUsers : RecordIsTheTask(c)'
    BY <1>2, CacheParts DEF RecordIsTheTask, SweepIsAlone, ClosedIsQuiet, MigratesRecord
<1>10. held' \subseteq everHeld' /\ RecordKeepsAnEntry'
    BY <1>2, CacheNumbers, CacheParts DEF RecordKeepsAnEntry, MigratesRecord
<1>11. UseIsNoted'
    BY <1>2, CacheNumbers, CacheParts DEF UseIsNoted, MigratesRecord
<1>13. NamedIsStored'
    BY <1>2, CacheParts DEF NamedIsStored, Named, MigratesRecord
<1> QED
    BY <1>7, <1>9, <1>10, <1>11, <1>13, CacheParts DEF CacheInv, MigrationPins, is_pinned,
       SweepIsAlone, ClosedIsQuiet, ReadersHaveFiles, ReleaseIsCovered, SweepKnowsRecords,
       MigratesRecord

(* Only a home without records is pruned.                                  *)
LEMMA FinishesMigrationIsRight ==
    ASSUME CacheInv, FinishesMigration
    PROVE  CacheInv'
<1>2. /\ home = "migrating" /\ recorded \subseteq migration.done /\ migrated' = migration.pinned /\ home' = "open"
      /\ UNCHANGED <<recorded, runtimes, task, sweep, migration, now, everHeld>>
    BY DEF FinishesMigration, MayPrune
<1>5. SweepIsAlone' /\ ClosedIsQuiet' /\ MigrationPins' /\ ReadersHaveFiles' /\ ReleaseIsCovered' /\ SweepKnowsRecords'
    BY <1>2, CacheParts DEF SweepIsAlone, ClosedIsQuiet, MigrationPins, ReadersHaveFiles,
       ReleaseIsCovered, SweepKnowsRecords
<1>7. CASE MayPrune /\ runtimes = {}
  <2>3. CacheIsTyped'
    <3>1. 0 \in 0..MaxTime /\ 0 <= now
        BY CacheNumbers, CacheParts
    <3> QED
        BY <1>2, <3>1, <1>7, CacheParts DEF CacheIsTyped, FinishesMigration
  <2> QED
      BY <1>5, <2>3, <1>2, <1>7, CacheParts DEF CacheInv, RecordKeepsAnEntry, UseIsNoted,
         NamedIsStored, Named, MigrationPins, MayPrune, FinishesMigration, RecordIsTheTask
<1>8. CASE ~(MayPrune /\ runtimes = {})
    BY <1>8, <1>5, <1>2, CacheParts DEF FinishesMigration, catalogVars, CacheIsTyped,
       RecordKeepsAnEntry, UseIsNoted, NamedIsStored, Named, CacheInv, RecordIsTheTask
<1> QED
    BY <1>7, <1>8

LEMMA HomeIsRight ==
    ASSUME CacheInv, OpensHome \/ HomeCloses \/ CacheTick \/ UNCHANGED cacheVars
    PROVE  CacheInv'
<1>2. CASE OpensHome
  <2>1. /\ home = "closed" /\ home' \in {"open", "migrating"} /\ migration' = [done |-> {}, pinned |-> TRUE]
        /\ UNCHANGED <<stored, cacheUsed, tagged, held, recorded, runtimes, task, sweep, migrated, now, everHeld, lastUse>>
      BY <1>2 DEF OpensHome, catalogVars
  <2>4. SweepIsAlone' /\ ClosedIsQuiet' /\ MigrationPins' /\ SweepKnowsRecords'
      BY <2>1, CacheParts DEF SweepIsAlone, ClosedIsQuiet, MigrationPins, SweepKnowsRecords
  <2> QED
      BY <2>4, <2>1, CacheParts DEF CacheInv, ReadersHaveFiles, ReleaseIsCovered,
         RecordKeepsAnEntry, RecordIsTheTask, UseIsNoted, NamedIsStored, Named, CacheIsTyped
<1>3. CASE HomeCloses
  <2> DEFINE pc(c) == CASE c \in recorded -> "stopped" [] task[c].pc = "gone" -> "gone" [] OTHER -> "none"
  <2>1. /\ home' = "closed" /\ sweep' = [pc |-> "idle", recorded |-> {}, unused |-> {}]
        /\ task' = [c \in CacheUsers |-> Task(pc(c), "create")]
        /\ UNCHANGED <<stored, cacheUsed, tagged, held, recorded, runtimes, migration, migrated, now, everHeld, lastUse>>
      BY <1>3 DEF HomeCloses, Idle, catalogVars
  <2>2. ASSUME NEW c \in CacheUsers
        PROVE  /\ pc(c) \in {"none", "stopped", "gone"}
               /\ (pc(c) = "stopped" <=> c \in recorded) /\ (task[c].pc = "gone" => pc(c) = "gone")
      BY CacheParts DEF RecordIsTheTask
  <2> HIDE DEF pc
  <2>3. \A c \in CacheUsers : task'[c].pc = pc(c) /\ Task(pc(c), "create") \in Tasks
      BY <2>1, <2>2 DEF Task, Tasks, TaskPCs
  <2>5. CacheIsTyped'
      BY <2>1, <2>3, CacheParts DEF CacheIsTyped, Tasks
  <2>6. SweepIsAlone' /\ ClosedIsQuiet' /\ MigrationPins' /\ SweepKnowsRecords'
      BY <2>1, <2>2, <2>3 DEF SweepIsAlone, ClosedIsQuiet, MigrationPins, SweepKnowsRecords
  <2> QED
      BY <2>5, <2>6, <2>2, <2>3, <2>1, CacheParts DEF CacheInv, ReadersHaveFiles, ReleaseIsCovered,
         UseIsNoted, NamedIsStored, Named, RecordKeepsAnEntry, RecordIsTheTask, RecordPCs
<1>4. CASE CacheTick
  <2>1. /\ now < MaxTime /\ now' = now + 1
        /\ UNCHANGED <<stored, cacheUsed, tagged, held, recorded, runtimes, task, sweep, home, migration, migrated, everHeld,
                       lastUse>>
      BY <1>4 DEF CacheTick, catalogVars
  <2>5. CacheIsTyped'
      BY <2>1, CacheNumbers, CacheParts DEF CacheIsTyped
  <2>6. Expired(cacheUsed) => Expired(cacheUsed)'
      BY <2>1, CacheNumbers, CacheParts DEF Expired
  <2>7. SweepIsAlone' /\ ClosedIsQuiet' /\ MigrationPins'
      BY <2>1, CacheParts DEF SweepIsAlone, ClosedIsQuiet, MigrationPins
  <2> QED
      BY <2>5, <2>7, <2>1, <2>6, CacheNumbers, CacheParts DEF CacheInv, ReadersHaveFiles,
         ReleaseIsCovered, RecordKeepsAnEntry, RecordIsTheTask, NamedIsStored, Named, UseIsNoted,
         SweepKnowsRecords
<1>5. CASE UNCHANGED cacheVars
  <2>2. CacheIsTyped' /\ SweepIsAlone' /\ ClosedIsQuiet' /\ MigrationPins'
      BY <1>5, CacheParts DEF CacheIsTyped, SweepIsAlone, ClosedIsQuiet, MigrationPins, cacheVars,
         catalogVars
  <2>3. (\A c \in CacheUsers : RecordIsTheTask(c)') /\ NamedIsStored' /\ UseIsNoted'
      BY <1>5, CacheParts DEF RecordIsTheTask, NamedIsStored, Named, UseIsNoted, cacheVars,
         catalogVars
  <2> QED
      BY <2>2, <2>3, <1>5, CacheParts DEF CacheInv, SweepKnowsRecords, Expired, ReadersHaveFiles,
         ReleaseIsCovered, RecordKeepsAnEntry, cacheVars, catalogVars
<1> QED
    BY <1>2, <1>3, <1>4, <1>5

-----------------------------------------------------------------------------
LEMMA CacheStarts == CacheInit => CacheInv
<1> SUFFICES ASSUME CacheInit PROVE CacheInv
    OBVIOUS
<1>1. /\ stored \in BOOLEAN /\ tagged \in BOOLEAN /\ (tagged => stored) /\ recorded \in SUBSET CacheUsers
      /\ runtimes \in SUBSET recorded /\ cacheUsed = 0 /\ held = {} /\ everHeld = {} /\ lastUse = 0
      /\ sweep = [pc |-> "idle", recorded |-> {}, unused |-> {}] /\ home = "closed"
      /\ migration = [done |-> {}, pinned |-> TRUE] /\ migrated = FALSE /\ now = 1
      /\ task = [b \in CacheUsers |-> Task(IF b \in recorded THEN "stopped" ELSE "none", "create")]
    BY DEF CacheInit, Idle
<1>2. \A b \in CacheUsers : /\ task[b] \in Tasks /\ task[b].pc \in {"none", "stopped"}
                            /\ (task[b].pc = "stopped" <=> b \in recorded)
    BY <1>1 DEF Task, Tasks, TaskPCs
<1>4. CacheIsTyped
  <2>3. /\ stored \in BOOLEAN /\ tagged \in BOOLEAN /\ migrated \in BOOLEAN
        /\ cacheUsed \in 0..MaxTime /\ now \in 1..MaxTime /\ lastUse \in 0..MaxTime
        /\ cacheUsed <= now /\ lastUse <= now
    <3>1. stored \in BOOLEAN /\ tagged \in BOOLEAN /\ migrated \in BOOLEAN
        BY DEF CacheInit
    <3> QED
        BY <3>1, ImageCacheConstants DEF CacheInit
  <2> QED
      BY <2>3, <1>1, ImageCacheConstants, <1>2 DEF CacheIsTyped, Tasks
<1>5. SweepIsAlone /\ ClosedIsQuiet /\ MigrationPins /\ SweepKnowsRecords /\ UseIsNoted
    BY <1>1, <1>2 DEF SweepIsAlone, ClosedIsQuiet, MigrationPins, SweepKnowsRecords, UseIsNoted
<1> QED
    BY <1>4, <1>5, <1>1, <1>2 DEF CacheInv, ReadersHaveFiles, ReleaseIsCovered, RecordKeepsAnEntry,
       NamedIsStored, Named, RecordIsTheTask, RecordPCs

LEMMA CacheSteps == CacheInv /\ [CacheNext]_cacheVars => CacheInv'
<1> SUFFICES ASSUME CacheInv, [CacheNext]_cacheVars PROVE CacheInv'
    OBVIOUS
<1>1. ASSUME NEW b \in CacheUsers,
             \/ Resolves(b) \/ Fetches(b) \/ RecordsImage(b) \/ FetchFails(b)
             \/ SavesRecord(b) \/ Looks(b) \/ FetchesAgain(b) \/ HoldFailsFor(b) \/ Tags(b)
             \/ StartsRuntime(b) \/ CreatesRuntime(b)
             \/ DeletesRuntime(b) \/ TakesOver(b) \/ TakeOverFails(b) \/ Untags(b) \/ RemovesItsRecord(b)
             \/ MigratesRecord(b)
      PROVE  CacheInv'
  <2>1. CASE Resolves(b) \/ Fetches(b) \/ FetchesAgain(b) \/ StartsRuntime(b)
      BY <2>1, BeginsAreRight
  <2>2. CASE FetchFails(b) \/ HoldFailsFor(b)
      BY <2>2, FailuresAreRight
  <2>3. CASE SavesRecord(b) \/ Looks(b) \/ CreatesRuntime(b) \/ DeletesRuntime(b) \/ TakeOverFails(b) \/ RemovesItsRecord(b)
      BY <2>3, RecordsAreRight
  <2>4. CASE RecordsImage(b)
      BY <2>4, RecordsImageIsRight
  <2>5. CASE Tags(b)
      BY <2>5, TagsIsRight
  <2>6. CASE TakesOver(b)
      BY <2>6, TakesOverIsRight
  <2>7. CASE Untags(b)
      BY <2>7, UntagsIsRight
  <2>8. CASE MigratesRecord(b)
      BY <2>8, MigratesRecordIsRight
  <2> QED
      BY <1>1, <2>1, <2>2, <2>3, <2>4, <2>5, <2>6, <2>7, <2>8
<1>2. CASE SweepBegins \/ SweepReadsRecords \/ SweepLists \/ SweepEnds
    BY <1>2, SweepReadsAreRight
<1>3. ASSUME NEW e \in CacheEntries, SweepRemoves(e) PROVE CacheInv'
    BY <1>3, SweepRemovesIsRight
<1>4. CASE FinishesMigration
    BY <1>4, FinishesMigrationIsRight
<1>5. CASE OpensHome \/ HomeCloses \/ CacheTick \/ UNCHANGED cacheVars
    BY <1>5, HomeIsRight
<1> QED
    BY <1>1, <1>2, <1>3, <1>4, <1>5 DEF CacheNext

(* What the invariant says of the images.                                  *)
LEMMA CacheInvKeepsImages == CacheInv => ImagesAreKept
BY CacheParts, CacheNumbers DEF CacheTypeOK, CacheIsTyped, SandboxKeepsItsImage, RecordKeepsAnEntry,
   NamedIsStored, Named, UseIsNoted, KeptForRetention, ImagesAreKept

(* No removal pass, interrupted deletion, failed creation, crash or        *)
(* migration takes the files of an image that a catalog entry names or     *)
(* that a recorded sandbox once held, and an image nobody uses stays for   *)
(* the retention period (ImageCache::record, hold, release and             *)
(* remove_unused of microsandbox/image_cache.rs).                          *)
THEOREM ImagesStayKept == CacheSpec => []ImagesAreKept
<1>1. CacheInit => CacheInv
    BY CacheStarts
<1>2. CacheInv /\ [CacheNext]_cacheVars => CacheInv'
    BY CacheSteps
<1>3. CacheInv => ImagesAreKept
    BY CacheInvKeepsImages
<1> QED
    BY <1>1, <1>2, <1>3, PTL DEF CacheSpec

-----------------------------------------------------------------------------
(* The order of a setup pass.                                              *)

SetupPCs ==
    {"idle", "url", "verify", "probing", "workspace", "waits", "checking", "none", "podman", "kvm", "grant", "home", "point",
     "git", "bootstrap"}
SetupIsTyped ==
    /\ image \in [podman : BOOLEAN, nested : BOOLEAN, home : BOOLEAN]
    /\ vm_boot \in [phase : {"off", "entrypoint", "starting", "running"}, count : 0..MaxVmBoots]
    /\ kvm \in {"absent", "bare", "granted"}
    /\ written \in [url : 0..daemon, socket : BOOLEAN, podman : {"none", "home", "agentd"}, hook : 0..daemon,
                    auth : [login : 0..2, at : 0..MaxClock]]
    /\ setup_pass \in [at : SetupPCs, late : BOOLEAN, next : {"none", "podman", "grant"}, login : 0..2, systemd : BOOLEAN]
    /\ daemon \in 1..MaxDaemons /\ clock \in 0..MaxClock /\ login \in 1..2 /\ events \in 0..MaxEvents
    /\ last \in [ended : {"none", "done", "failed"}, vm_boot : 0..MaxVmBoots, systemd : BOOLEAN]

(* systemd counts in a pass once it was waited for; from then on the boot  *)
(* is over, so that no rule of the image runs after a grant.               *)
BeforeWaiting == {"idle", "url", "verify", "probing", "workspace"}
AfterGranting == {"home", "point", "git", "bootstrap"}
WaitsForBoot ==
    /\ setup_pass.at \in BeforeWaiting => ~setup_pass.systemd
    /\ setup_pass.at \in AfterGranting \cup {"podman", "kvm", "grant"} /\ setup_pass.systemd /\ Up => vm_boot.phase = "running"
GrantHolds == setup_pass.at \in AfterGranting /\ setup_pass.systemd /\ Up => kvm # "bare"
DoneHolds ==
    last.ended = "done" /\ last.vm_boot = vm_boot.count /\ last.systemd /\ Up /\ At_step("idle")
    => vm_boot.phase = "running" /\ kvm # "bare"
PointedHolds == setup_pass.at \in {"git", "bootstrap"} /\ image.podman => written.podman = "agentd"

SetupInv ==
    /\ SetupIsTyped /\ WaitsForBoot /\ GrantHolds /\ DoneHolds /\ PointedHolds
    /\ HooksReachTheDaemon /\ PodmanOnABootedGuest /\ PodmanIsShared

LEMMA SetupParts ==
    ASSUME SetupInv
    PROVE  /\ SetupIsTyped /\ WaitsForBoot /\ GrantHolds /\ DoneHolds /\ PointedHolds
           /\ HooksReachTheDaemon /\ PodmanOnABootedGuest /\ PodmanIsShared
BY DEF SetupInv

Passes == [at : SetupPCs, late : BOOLEAN, next : {"none", "podman", "grant"}, login : 0..2, systemd : BOOLEAN]

(* A step of the pass that ends neither it nor the guest.                  *)
LEMMA PassGoesOn ==
    ASSUME SetupInv, NEW r \in Passes, setup_pass' = r, setup_pass.at # "idle", r.at # "idle", UNCHANGED last,
           UNCHANGED <<image, daemon, clock, login, events, vm_boot>>, kvm' \in {"absent", "bare", "granted"},
           written' \in [url : 0..daemon, socket : BOOLEAN, podman : {"none", "home", "agentd"}, hook : 0..daemon,
                         auth : [login : 0..2, at : 0..MaxClock]],
           r.at # "url" => written'.url = daemon,
           r.at \in BeforeWaiting => ~r.systemd,
           r.at \in AfterGranting \cup {"podman", "kvm", "grant"} /\ r.systemd /\ Up => vm_boot.phase = "running",
           r.at \in AfterGranting /\ r.systemd /\ Up => kvm' # "bare",
           r.at \in {"git", "bootstrap"} /\ image.podman => written'.podman = "agentd",
           r.at = "podman" /\ Up => vm_boot.phase = "running"
    PROVE  SetupInv'
<1>3. WaitsForBoot' /\ GrantHolds' /\ PointedHolds' /\ HooksReachTheDaemon' /\ PodmanOnABootedGuest'
    BY DEF WaitsForBoot, GrantHolds, PointedHolds, HooksReachTheDaemon, PodmanOnABootedGuest, Up, At_step
<1> QED
    BY <1>3, SetupParts DEF SetupInv, DoneHolds, PodmanIsShared, At_step, SetupIsTyped, Passes,
       SetupPCs

(* A pass that fails, or that ends with its daemon.                        *)
LEMMA PassFails ==
    ASSUME SetupInv, Ended("failed"), UNCHANGED <<image, vm_boot, kvm, written, clock, login, events>>,
           daemon' \in daemon..MaxDaemons
    PROVE  SetupInv'
<1>2. /\ setup_pass' = [at |-> "idle", late |-> FALSE, next |-> "none", login |-> 0, systemd |-> FALSE]
      /\ last' = [last EXCEPT !.ended = "failed"]
    BY DEF Ended, NoSetup
<1>5. WaitsForBoot' /\ GrantHolds' /\ PointedHolds' /\ HooksReachTheDaemon' /\ PodmanOnABootedGuest'
    BY <1>2 DEF WaitsForBoot, GrantHolds, PointedHolds, HooksReachTheDaemon, PodmanOnABootedGuest, Up, At_step,
                BeforeWaiting, AfterGranting
<1> QED
    BY <1>5, <1>2, SetupParts DEF SetupInv, DoneHolds, PodmanIsShared, SetupIsTyped, SetupPCs

(* The steps of a pass, in their order.                                    *)
LEMMA PassStepsAreRight ==
    ASSUME SetupInv,
           \/ InstallsUrl \/ StartsProbe \/ ProbeEnds \/ FindsPodman
           \/ StartsCheck \/ CheckAnswers \/ DeadlinePasses \/ ConfiguresPodman
           \/ FindsKvm \/ grant_kvm \/ CarriesHome \/ point_podman_at_socket \/ configure_git_identity
    PROVE  SetupInv'
<1> DEFINE Writings == [url : 0..daemon, socket : BOOLEAN, podman : {"none", "home", "agentd"}, hook : 0..daemon,
                        auth : [login : 0..2, at : 0..MaxClock]]
<1>3. UNCHANGED <<image, daemon, clock, login, events, vm_boot, last>>
    BY DEF InstallsUrl, StartsProbe, ProbeEnds, FindsPodman, StartsCheck, CheckAnswers, DeadlinePasses, ConfiguresPodman,
           FindsKvm, grant_kvm, CarriesHome, point_podman_at_socket, configure_git_identity, Ambient
<1>4. ASSUME NEW at \in SetupPCs, Moves_to(at)
      PROVE  /\ setup_pass' \in Passes /\ setup_pass'.at = at
             /\ setup_pass'.systemd = setup_pass.systemd /\ setup_pass'.next = setup_pass.next
    BY <1>4, SetupParts DEF Moves_to, Passes, SetupPCs, SetupIsTyped
<1>5. CASE InstallsUrl
    BY <1>5, <1>4, <1>3, PassGoesOn, SetupParts DEF InstallsUrl, At_step, SetupPCs, SetupIsTyped,
       WaitsForBoot, BeforeWaiting
<1>6. CASE StartsProbe \/ ProbeEnds
    BY <1>6, <1>4, <1>3, PassGoesOn, SetupParts DEF StartsProbe, ProbeEnds, At_step, SetupPCs,
       SetupIsTyped, WaitsForBoot, BeforeWaiting, HooksReachTheDaemon
<1>7. CASE FindsPodman
  <2>2. /\ setup_pass' \in Passes
        /\ \/ setup_pass'.at = "waits"
           \/ setup_pass'.at = "kvm" /\ setup_pass'.systemd = setup_pass.systemd
      BY <1>7, SetupParts DEF Passes, SetupPCs, FindsPodman, At_step, SetupIsTyped
  <2> QED
      BY <1>3, <2>2, PassGoesOn, <1>7, SetupParts DEF SetupIsTyped, WaitsForBoot, BeforeWaiting,
         AfterGranting, HooksReachTheDaemon, FindsPodman, At_step
<1>8. CASE StartsCheck \/ CheckAnswers \/ DeadlinePasses
  <2>3. /\ setup_pass' \in Passes
        /\ \/ setup_pass'.at \in {"waits", "checking"}
           \/ setup_pass'.at \in {"none", "podman", "grant"} /\ vm_boot.phase = "running"
      BY <1>4, <1>8, SetupParts DEF Passes, SetupPCs, StartsCheck, CheckAnswers, DeadlinePasses,
         At_step, SetupIsTyped
  <2> QED
      BY <1>3, <2>3, PassGoesOn, <1>8, SetupParts DEF SetupIsTyped, BeforeWaiting, AfterGranting,
         HooksReachTheDaemon, StartsCheck, CheckAnswers, DeadlinePasses, At_step
<1>9. CASE ConfiguresPodman
    BY <1>9, <1>4, <1>3, PassGoesOn, SetupParts DEF ConfiguresPodman, At_step, SetupPCs,
       SetupIsTyped, BeforeWaiting, AfterGranting, HooksReachTheDaemon, PodmanOnABootedGuest
<1>10. CASE FindsKvm
  <2>2. /\ setup_pass' \in Passes
        /\ \/ setup_pass'.at = "home" /\ kvm = "absent" /\ setup_pass'.systemd = setup_pass.systemd
           \/ setup_pass'.at = "grant" /\ setup_pass'.systemd = setup_pass.systemd
           \/ setup_pass'.at = "waits"
      BY <1>10, SetupParts DEF Passes, SetupPCs, FindsKvm, At_step, SetupIsTyped
  <2> QED
      BY ZenonT(60), <1>3, <2>2, PassGoesOn, <1>10, SetupParts DEF SetupIsTyped, WaitsForBoot,
         BeforeWaiting, AfterGranting, HooksReachTheDaemon, FindsKvm, At_step
<1>11. CASE grant_kvm
    BY <1>11, <1>4, <1>3, PassGoesOn, SetupParts DEF grant_kvm, At_step, SetupPCs, SetupIsTyped,
       WaitsForBoot, BeforeWaiting, HooksReachTheDaemon
<1>12. CASE CarriesHome
    BY <1>12, <1>4, <1>3, PassGoesOn, SetupParts DEF CarriesHome, At_step, SetupPCs, SetupIsTyped,
       WaitsForBoot, GrantHolds, BeforeWaiting, AfterGranting, HooksReachTheDaemon
<1>13. CASE point_podman_at_socket
    BY <1>13, <1>4, <1>3, PassGoesOn, SetupParts DEF point_podman_at_socket, At_step, SetupPCs,
       SetupIsTyped, WaitsForBoot, GrantHolds, BeforeWaiting, AfterGranting, HooksReachTheDaemon
<1>14. CASE configure_git_identity
  <2>1. UNCHANGED <<kvm, written>> /\ setup_pass.at = "git" /\ Moves_to("bootstrap")
      BY <1>14 DEF configure_git_identity, At_step
  <2> QED
      BY <1>3, <2>1, PassGoesOn, <1>4, SetupParts DEF SetupIsTyped, WaitsForBoot, GrantHolds,
         PointedHolds, BeforeWaiting, AfterGranting, HooksReachTheDaemon, SetupPCs
<1> QED
    BY <1>5, <1>6, <1>7, <1>8, <1>9, <1>10, <1>11, <1>12, <1>13, <1>14

(* A pass begins, on a sandbox that is up or boots anew, and completes.    *)
LEMMA BeginsSetupIsRight ==
    ASSUME SetupInv, BeginsSetup
    PROVE  SetupInv'
<1>2. /\ setup_pass' = [at |-> "url", late |-> FALSE, next |-> "none", login |-> login, systemd |-> FALSE]
      /\ UNCHANGED <<written, last, image, daemon, clock, login, events>>
    BY DEF BeginsSetup, NoSetup, Ambient
<1>3. /\ vm_boot' \in [phase : {"off", "entrypoint", "starting", "running"}, count : 0..MaxVmBoots]
      /\ kvm' \in {"absent", "bare", "granted"}
    BY SetupConstants, SetupParts DEF BeginsSetup, SetupIsTyped
<1>5. WaitsForBoot' /\ GrantHolds' /\ PointedHolds' /\ HooksReachTheDaemon' /\ PodmanOnABootedGuest'
    BY <1>2 DEF WaitsForBoot, GrantHolds, PointedHolds, HooksReachTheDaemon, PodmanOnABootedGuest, At_step,
                BeforeWaiting, AfterGranting
<1> QED
    BY <1>5, <1>2, <1>3, SetupParts DEF SetupInv, DoneHolds, PodmanIsShared, At_step, SetupIsTyped,
       SetupPCs

LEMMA BootstrapsIsRight ==
    ASSUME SetupInv, Bootstraps
    PROVE  SetupInv'
<1>2. /\ setup_pass.at = "bootstrap" /\ Up
      /\ setup_pass' = [at |-> "idle", late |-> FALSE, next |-> "none", login |-> 0, systemd |-> FALSE]
      /\ last' = [ended |-> "done", vm_boot |-> vm_boot.count, systemd |-> setup_pass.systemd]
      /\ UNCHANGED <<vm_boot, kvm, image, daemon, clock, login, events>>
    BY DEF Bootstraps, NoSetup, Ambient, At_step
<1>3. /\ written'.podman = written.podman
      /\ written' \in [url : 0..daemon, socket : BOOLEAN, podman : {"none", "home", "agentd"}, hook : 0..daemon,
                       auth : [login : 0..2, at : 0..MaxClock]]
  <2>1. PICK auth \in [login : 0..2, at : 0..MaxClock] : written' = [written EXCEPT !.hook = daemon, !.auth = auth]
      BY SetupParts DEF Bootstraps, SetupIsTyped
  <2>2. daemon \in 0..daemon
      BY SetupParts DEF SetupIsTyped
  <2> QED
      BY <2>1, <2>2, SetupParts DEF SetupIsTyped
<1>4. SetupIsTyped'
    BY <1>2, <1>3, SetupParts DEF SetupIsTyped, SetupPCs
<1>5. WaitsForBoot' /\ GrantHolds' /\ PointedHolds' /\ HooksReachTheDaemon' /\ PodmanOnABootedGuest'
    BY <1>2 DEF WaitsForBoot, GrantHolds, PointedHolds, HooksReachTheDaemon, PodmanOnABootedGuest, At_step,
                BeforeWaiting, AfterGranting
<1> QED
    BY <1>4, <1>5, <1>2, <1>3, SetupParts DEF SetupInv, DoneHolds, PodmanIsShared, WaitsForBoot,
       GrantHolds, PointedHolds, AfterGranting, Up

(* The guest, the clock and the login move beside the pass: a guest that a *)
(* pass found booted only goes down.                                       *)
LEMMA BesideThePass ==
    ASSUME SetupInv,
           BecomesSystemd \/ BootFinishes \/ GuestDies \/ (\E t \in 0..MaxClock : ClockMoves(t)) \/ LoginChanges
           \/ UNCHANGED setupVars
    PROVE  SetupInv'
<1>2. UNCHANGED <<image, daemon, written, setup_pass, last>>
    BY DEF BecomesSystemd, BootFinishes, GuestDies, ClockMoves, LoginChanges, Ambient, setupVars
<1>3. /\ vm_boot' \in [phase : {"off", "entrypoint", "starting", "running"}, count : 0..MaxVmBoots]
      /\ vm_boot'.count = vm_boot.count /\ kvm' \in {"absent", "bare", "granted"}
      /\ \/ vm_boot'.phase = "off"
         \/ vm_boot.phase = "entrypoint" /\ vm_boot'.phase = "starting" /\ kvm' = kvm
         \/ vm_boot.phase = "starting" /\ vm_boot'.phase = "running"
         \/ vm_boot'.phase = vm_boot.phase /\ kvm' = kvm
    BY SetupParts DEF BecomesSystemd, BootFinishes, GuestDies, ClockMoves, LoginChanges, Ambient,
       setupVars, SetupIsTyped
<1>4. clock' \in 0..MaxClock /\ login' \in 1..2 /\ events' \in 0..MaxEvents
    BY SetupConstants, SetupParts DEF ClockMoves, Event, SetupIsTyped, LoginChanges, BecomesSystemd,
       BootFinishes, GuestDies, Ambient, setupVars
<1>6. WaitsForBoot' /\ GrantHolds' /\ DoneHolds'
    BY <1>2, <1>3, SetupParts DEF WaitsForBoot, GrantHolds, DoneHolds, Up, At_step, AfterGranting
<1> QED
    BY <1>6, <1>2, <1>3, <1>4, SetupParts DEF SetupInv, PointedHolds, HooksReachTheDaemon,
       PodmanOnABootedGuest, PodmanIsShared, Up, At_step, SetupIsTyped

LEMMA DaemonRestartsIsRight ==
    ASSUME SetupInv, DaemonRestarts
    PROVE  SetupInv'
<1>4. CASE setup_pass.at = "idle"
  <2>3. WaitsForBoot' /\ GrantHolds' /\ DoneHolds' /\ PointedHolds' /\ PodmanOnABootedGuest' /\ PodmanIsShared'
      BY <1>4, SetupParts DEF WaitsForBoot, GrantHolds, DoneHolds, PointedHolds,
         PodmanOnABootedGuest, PodmanIsShared, Up, At_step, DaemonRestarts
  <2> QED
      BY <2>3, <1>4, SetupConstants, SetupParts DEF SetupInv, HooksReachTheDaemon, SetupIsTyped,
         DaemonRestarts, At_step
<1>5. CASE setup_pass.at # "idle"
    BY <1>5, PassFails, SetupConstants, SetupParts DEF DaemonRestarts, At_step, SetupIsTyped
<1> QED
    BY <1>4, <1>5

LEMMA SetupStarts == SetupInit => SetupInv
<1> SUFFICES ASSUME SetupInit PROVE SetupInv
    OBVIOUS
<1>3. WaitsForBoot /\ GrantHolds /\ PointedHolds /\ HooksReachTheDaemon /\ PodmanOnABootedGuest
    BY DEF SetupInit, NoSetup, WaitsForBoot, GrantHolds, PointedHolds, HooksReachTheDaemon, PodmanOnABootedGuest, At_step,
           BeforeWaiting, AfterGranting
<1> QED
    BY <1>3, SetupConstants DEF SetupInv, SetupInit, DoneHolds, PodmanIsShared, SetupIsTyped,
       NoSetup, SetupPCs

LEMMA SetupSteps == SetupInv /\ [SetupNext]_setupVars => SetupInv'
BY BeginsSetupIsRight, PassStepsAreRight, BootstrapsIsRight, SetupParts, PassFails,
   DaemonRestartsIsRight, BesideThePass DEF SetupIsTyped, TimesOut, SetupBreaks, Ambient, SetupNext

LEMMA SetupInvIsInOrder == SetupInv => SetupIsInOrder
BY SetupParts DEF SetupTypeOK, SetupIsTyped, KvmStaysGranted, DoneHolds, SetupIsInOrder

(* Whenever the guest dies, the daemon restarts, a check is out of time or *)
(* a step breaks: this daemon's hooks are reached from the first step of a *)
(* pass on, Podman is set up on a booted guest and shared by all, and the  *)
(* device that was granted stays granted until the guest reboots           *)
(* (sandbox/platform/linux, wait_for_systemd and grant_kvm).               *)
THEOREM SetupStaysInOrder == SetupSpec => []SetupIsInOrder
<1>1. SetupInit => SetupInv
    BY SetupStarts
<1>2. SetupInv /\ [SetupNext]_setupVars => SetupInv'
    BY SetupSteps
<1>3. SetupInv => SetupIsInOrder
    BY SetupInvIsInOrder
<1> QED
    BY <1>1, <1>2, <1>3, PTL DEF SetupSpec

-----------------------------------------------------------------------------
(* What a pass places.                                                     *)

Shelves == [Folders -> [Declarable \cup {Shipped} -> OnShelf]]
PlacingPCs == {"idle", "syncs", "sources", "harness", "reads", "tidies", "writes", "skills"}
Placings == [at : PlacingPCs, skills : SUBSET Declarable, own : BOOLEAN, sources : SUBSET Declarable,
             left : SUBSET PlacedHarnesses, harness : PlacedHarnesses \cup {"none"},
             placed : [Folders -> SUBSET Declarable], tidied : SUBSET Folders, read : Seq(Parts),
             todo : SUBSET Declarable]
PlacementIsTyped ==
    /\ manifest \in [skills : SUBSET Declarable, own : BOOLEAN, harnesses : SUBSET PlacedHarnesses]
    /\ host \in [sources : SUBSET Declarable, overlay : BOOLEAN]
    /\ in_guest \in [box : 1..MaxSandboxes, shelf : Shelves, file : [PlacedHarnesses -> Seq(Parts)]]
    /\ status \in [box : 0..MaxSandboxes, placed : [Folders -> SUBSET Declarable]]
    /\ setup \in Placings
    /\ stray \in [Folders -> SUBSET (Declarable \cup {Shipped})]
    /\ byHand \subseteq PlacedHarnesses /\ changes \in 0..MaxChanges

(* A folder that is tidied is to have every skill the pass installs.       *)
PassIsInOrder ==
    /\ setup.at \in {"syncs", "sources"} => setup.tidied = {} /\ setup.sources = {}
    /\ setup.at \in {"reads", "tidies", "writes", "skills"} => setup.harness \in PlacedHarnesses
    /\ setup.at \in {"writes", "skills"} => Folder(setup.harness) \in setup.tidied
    /\ setup.sources \subseteq setup.skills /\ setup.todo \subseteq Skills(setup)
    /\ \A f \in setup.tidied : Skills(setup) \subseteq setup.placed[f]
PassKnowsThePlaced ==
    ~In_("idle") => \A f \in Folders : PlacedIn(f) \subseteq setup.placed[f] \cup stray[f]

PlacementInv ==
    /\ PlacementIsTyped /\ PassIsInOrder /\ PassKnowsThePlaced
    /\ StatusKnowsThePlaced /\ ImageSkillsStay

LEMMA PlacementParts ==
    ASSUME PlacementInv
    PROVE  /\ PlacementIsTyped /\ PassIsInOrder /\ PassKnowsThePlaced /\ StatusKnowsThePlaced /\ ImageSkillsStay
           /\ setup \in Placings /\ in_guest.shelf \in Shelves
BY DEF PlacementInv, PlacementIsTyped

LEMMA FoldersAreFolders ==
    /\ \A h \in PlacedHarnesses : Folder(h) \in Folders
    /\ "agentctl" \in Declarable /\ Shipped \notin Declarable /\ Shipped \in Declarable \cup {Shipped}
BY DEF Folders, Declarable, Shipped

(* An image brings one skill, which setup did not place.                   *)
LEMMA ImageIsRight ==
    ASSUME NEW box \in 1..MaxSandboxes
    PROVE  /\ Image(box) \in [box : 1..MaxSandboxes, shelf : Shelves, file : [PlacedHarnesses -> Seq(Parts)]]
           /\ Image(box).box = box
           /\ \A f \in Folders : /\ Image(box).shelf[f][Shipped] = "image"
                                 /\ \A n \in Declarable : Image(box).shelf[f][n] = "none"
BY FoldersAreFolders DEF Parts, Shelves, OnShelf, Image

LEMMA PlacedInIs ==
    ASSUME PlacementIsTyped, NEW f \in Folders
    PROVE  /\ PlacedIn(f) = {n \in Declarable \cup {Shipped} : in_guest.shelf[f][n] \in {"own", "platform"}}
           /\ placed_skills(in_guest.box)[f] \subseteq Declarable
BY DEF PlacementIsTyped, Shelves, placed_skills, Empty, PlacedIn

(* A step of the pass that neither places nor forgets a skill.             *)
LEMMA PlacingGoesOn ==
    ASSUME PlacementInv, NEW r \in Placings, setup' = r, setup.at # "idle", r.at # "idle", r.placed = setup.placed,
           in_guest' \in [box : 1..MaxSandboxes, shelf : Shelves, file : [PlacedHarnesses -> Seq(Parts)]],
           in_guest'.shelf = in_guest.shelf, byHand' \subseteq PlacedHarnesses,
           UNCHANGED <<manifest, host, status, stray, changes>>, PassIsInOrder'
    PROVE  PlacementInv'
BY DEF PlacementIsTyped, PassKnowsThePlaced, PlacedIn, In_, StatusKnowsThePlaced, ImageSkillsStay,
   PlacementInv

(* Between the steps of a pass, and without one, everybody else moves.     *)
LEMMA OthersPlaceNothing ==
    ASSUME PlacementInv, UNCHANGED <<status, setup, stray>>,
           manifest' \in [skills : SUBSET Declarable, own : BOOLEAN, harnesses : SUBSET PlacedHarnesses],
           host' \in [sources : SUBSET Declarable, overlay : BOOLEAN],
           in_guest' \in [box : 1..MaxSandboxes, shelf : Shelves, file : [PlacedHarnesses -> Seq(Parts)]],
           in_guest'.shelf = in_guest.shelf, in_guest'.box = in_guest.box,
           byHand' \subseteq PlacedHarnesses, changes' \in 0..MaxChanges
    PROVE  PlacementInv'
BY DEF PlacementIsTyped, PassIsInOrder, PassKnowsThePlaced, PlacedIn, In_, StatusKnowsThePlaced,
   ImageSkillsStay, placed_skills, PlacementInv

LEMMA WithoutSection ==
    ASSUME NEW file \in Seq(Parts)
    PROVE  without_section(file) \in Seq(Parts) /\ place(without_section(file)) \in Seq(Parts) /\ place_own \in Seq(Parts)
BY DEF Parts, without_section, place, place_own

-----------------------------------------------------------------------------
LEMMA PlacingStepsAreRight ==
    ASSUME PlacementInv, sync_home \/ ReadsSources \/ NextHarness \/ ReadsInstructions \/ WritesInstructions
    PROVE  PlacementInv'
<1>1. PlacementIsTyped /\ PassIsInOrder /\ setup \in Placings
    BY PlacementParts
<1> DEFINE Guests == [box : 1..MaxSandboxes, shelf : Shelves, file : [PlacedHarnesses -> Seq(Parts)]]
<1>2. in_guest \in Guests /\ byHand \subseteq PlacedHarnesses
    BY <1>1 DEF PlacementIsTyped
<1>3. CASE sync_home
  <2>2. [h \in PlacedHarnesses |-> <<"overlay">>] \in [PlacedHarnesses -> Seq(Parts)]
      BY DEF Parts
  <2>4. setup' \in Placings /\ setup'.at = "sources" /\ setup'.placed = setup.placed /\ PassIsInOrder'
      BY <1>1, <1>2, <1>3 DEF Placings, PlacingPCs, PassIsInOrder, Skills, sync_home, In_, Goes_To
  <2> QED
      BY <2>4, PlacingGoesOn, <1>2, <2>2, <1>3 DEF sync_home, In_, Goes_To
<1>4. CASE ReadsSources
  <2>2. /\ setup' \in Placings /\ setup'.at = "harness" /\ setup'.placed = setup.placed
        /\ setup'.tidied = {} /\ setup'.sources \subseteq setup'.skills /\ setup'.todo = setup.todo
      BY <1>1, <1>4 DEF Placings, PlacingPCs, PassIsInOrder, ReadsSources, In_
  <2> QED
      BY <1>2, <2>2, PlacingGoesOn, <1>1, <1>4 DEF PassIsInOrder, Skills, ReadsSources, In_
<1>5. CASE NextHarness
  <2>1. PICK h \in setup.left : setup' = [setup EXCEPT !.at = "reads", !.harness = h, !.left = setup.left \ {h}]
      BY <1>5 DEF NextHarness
  <2>3. setup' \in Placings /\ setup'.at = "reads" /\ setup'.placed = setup.placed /\ PassIsInOrder'
      BY <1>1, <2>1 DEF Placings, PlacingPCs, PassIsInOrder, Skills
  <2> QED
      BY <1>2, <2>3, PlacingGoesOn, <1>5 DEF NextHarness, In_
<1>6. CASE ReadsInstructions
  <2>3. (IF setup.own THEN <<>> ELSE in_guest.file[setup.harness]) \in Seq(Parts)
      BY <1>1, <1>2, <1>6 DEF PassIsInOrder, ReadsInstructions, In_
  <2>4. setup' \in Placings /\ setup'.at = "tidies" /\ setup'.placed = setup.placed /\ PassIsInOrder'
      BY <1>1, <2>3, <1>6 DEF Placings, PlacingPCs, PassIsInOrder, Skills, ReadsInstructions, In_
  <2> QED
      BY <1>2, <2>4, PlacingGoesOn, <1>6 DEF ReadsInstructions, In_
<1>7. CASE WritesInstructions
  <2>5. Skills(setup) \in SUBSET Declarable /\ <<>> \in Seq(Parts)
      BY <1>1, FoldersAreFolders DEF Skills, Placings
  <2>6. setup' \in Placings /\ setup'.at = "skills" /\ setup'.placed = setup.placed /\ PassIsInOrder'
      BY <1>1, <2>5, <1>7 DEF Placings, PlacingPCs, PassIsInOrder, Skills, WritesInstructions, In_
  <2> QED
      BY <1>2, <2>6, PlacingGoesOn, WithoutSection, <1>1, <1>7 DEF PassIsInOrder, Placings,
         WritesInstructions, In_
<1> QED
    BY <1>3, <1>4, <1>5, <1>6, <1>7

(* What is tidied away is no longer in the sandbox, and only that.         *)
LEMMA TidiesIsRight ==
    ASSUME PlacementInv, Tidies
    PROVE  PlacementInv'
<1>1. /\ PlacementIsTyped /\ PassIsInOrder /\ PassKnowsThePlaced /\ ImageSkillsStay /\ setup \in Placings
      /\ in_guest.shelf \in Shelves
    BY PlacementParts
<1> DEFINE f == Folder(setup.harness)
           before == setup.placed[f]
           rest == [n \in Declarable \cup {Shipped} |-> IF n \in before \ DeclaredIn(setup) THEN "none" ELSE in_guest.shelf[f][n]]
<1>3. f \in Folders
    BY <1>1, FoldersAreFolders DEF PassIsInOrder, Tidies, In_
<1>4. before \subseteq Declarable /\ DeclaredIn(setup) \subseteq Declarable /\ Skills(setup) \subseteq DeclaredIn(setup)
    BY <1>1, <1>3, FoldersAreFolders DEF Placings, PassIsInOrder, Skills, DeclaredIn
<1>5. CASE f \in setup.tidied
  <2>2. setup' \in Placings /\ setup'.at = "writes" /\ setup'.placed = setup.placed /\ PassIsInOrder'
      BY <1>1, <1>5 DEF Placings, PlacingPCs, PassIsInOrder, Skills, Tidies, Goes_To, In_
  <2> QED
      BY <1>1, <2>2, PlacingGoesOn, <1>5 DEF PlacementIsTyped, Tidies, Goes_To, In_
<1>6. CASE f \notin setup.tidied
  <2>1. /\ in_guest' = [in_guest EXCEPT !.shelf = [in_guest.shelf EXCEPT ![f] = rest]]
        /\ setup' = [setup EXCEPT !.at = "writes", !.tidied = setup.tidied \cup {f},
                                  !.placed = [setup.placed EXCEPT ![f] = Kept(before)]]
      BY <1>1, <1>6 DEF Shelves, Tidies
  <2>2. rest \in [Declarable \cup {Shipped} -> OnShelf]
      BY <1>1, <1>3 DEF Shelves, OnShelf
  <2>3. Kept(before) \subseteq Declarable /\ Skills(setup) \subseteq Kept(before) /\ before \cap DeclaredIn(setup) \subseteq Kept(before)
      BY <1>4 DEF Kept
  <2> HIDE DEF f, before, rest
  <2>4. /\ in_guest'.shelf \in Shelves /\ in_guest'.shelf[f] = rest
        /\ \A g \in Folders \ {f} : in_guest'.shelf[g] = in_guest.shelf[g]
        /\ in_guest' \in [box : 1..MaxSandboxes, shelf : Shelves, file : [PlacedHarnesses -> Seq(Parts)]]
      BY <1>1, <1>3, <2>2, <2>1 DEF Shelves, PlacementIsTyped
  <2>5. /\ setup' \in Placings /\ setup'.at = "writes" /\ setup'.placed[f] = Kept(before)
        /\ setup'.tidied = setup.tidied \cup {f}
        /\ \A g \in Folders \ {f} : setup'.placed[g] = setup.placed[g]
        /\ setup'.harness = setup.harness /\ setup'.sources = setup.sources /\ setup'.skills = setup.skills
        /\ setup'.todo = setup.todo
      BY <1>1, <1>3, <2>3, <2>1 DEF Placings, PlacingPCs
  <2>6. PlacementIsTyped'
      BY <1>1, <2>4, <2>5 DEF PlacementIsTyped, Tidies, In_
  <2>7. PassIsInOrder'
      BY <1>1, <2>5, <2>3 DEF Skills, f, PassIsInOrder, Placings, Tidies, In_
  <2>8. PassKnowsThePlaced'
      BY <2>4, <1>1, PlacedInIs, <2>3, <2>5 DEF PlacedIn, rest, PassKnowsThePlaced, In_, before,
         Tidies
  <2> QED
      BY <2>6, <2>7, <2>8, <2>5, <1>4, FoldersAreFolders, <1>1, <2>4 DEF PlacementInv,
         StatusKnowsThePlaced, In_, rest, ImageSkillsStay
<1> QED
    BY <1>5, <1>6

(* What a pass installs it is to record.                                   *)
LEMMA InstallsSkillIsRight ==
    ASSUME PlacementInv, InstallsSkill
    PROVE  PlacementInv'
<1>3. CASE setup.todo = {}
  <2>2. setup' \in Placings /\ setup'.at = "harness" /\ setup'.placed = setup.placed /\ PassIsInOrder'
      BY <1>3, PlacementParts DEF Placings, PlacingPCs, PassIsInOrder, Skills, InstallsSkill,
         Goes_To
  <2> QED
      BY <2>2, PlacingGoesOn, <1>3, PlacementParts DEF PlacementIsTyped, InstallsSkill, Goes_To, In_
<1>4. CASE setup.todo # {}
  <2>1. PICK n \in setup.todo :
          /\ in_guest' = [in_guest EXCEPT !.shelf[Folder(setup.harness)][n] = SourceOf(setup, n)]
          /\ setup' = [setup EXCEPT !.todo = setup.todo \ {n}]
      BY <1>4 DEF InstallsSkill
  <2> DEFINE f == Folder(setup.harness)
             shelf == [in_guest.shelf[f] EXCEPT ![n] = SourceOf(setup, n)]
             shelves == [in_guest.shelf EXCEPT ![f] = shelf]
  <2>2. f \in Folders /\ f \in setup.tidied
      BY FoldersAreFolders, PlacementParts DEF PassIsInOrder, InstallsSkill, In_
  <2>3. /\ n \in Declarable /\ n # Shipped /\ n \in setup.placed[f]
        /\ SourceOf(setup, n) \in {"own", "platform"}
      BY <2>2, FoldersAreFolders, PlacementParts DEF Placings, PassIsInOrder, SourceOf
  <2>4. /\ shelf \in [Declarable \cup {Shipped} -> OnShelf]
        /\ \A m \in Declarable \cup {Shipped} : m # n => shelf[m] = in_guest.shelf[f][m]
      BY <2>2, <2>3, PlacementParts DEF Shelves, OnShelf
  <2>5. in_guest' = [in_guest EXCEPT !.shelf = shelves]
      BY <2>1
  <2> HIDE DEF f, shelf
  <2>6. /\ shelves \in Shelves /\ shelves[f] = shelf /\ \A g \in Folders \ {f} : shelves[g] = in_guest.shelf[g]
      BY <2>2, <2>4, PlacementParts DEF Shelves
  <2> HIDE DEF shelves
  <2>7. /\ in_guest' \in [box : 1..MaxSandboxes, shelf : Shelves, file : [PlacedHarnesses -> Seq(Parts)]]
        /\ in_guest'.shelf = shelves
      BY <2>5, <2>6, PlacementParts DEF PlacementIsTyped
  <2>8. setup' \in Placings /\ setup'.at = "skills" /\ setup'.placed = setup.placed /\ PassIsInOrder'
      BY <2>1, PlacementParts DEF Placings, PlacingPCs, PassIsInOrder, Skills, InstallsSkill, In_
  <2>10. PassKnowsThePlaced'
      BY <2>6, <2>7, <2>3, <2>4, PlacedInIs, <2>8, PlacementParts DEF PlacedIn, Shelves,
         PassKnowsThePlaced, In_, InstallsSkill
  <2>11. ImageSkillsStay' /\ StatusKnowsThePlaced'
      BY <2>2, <2>3, <2>4, <2>6, <2>7, <2>8, PlacementParts DEF ImageSkillsStay,
         StatusKnowsThePlaced, In_
  <2> QED
      BY <2>8, <2>10, <2>11, <2>7, PlacementParts DEF PlacementInv, PlacementIsTyped, InstallsSkill,
         In_
<1> QED
    BY <1>3, <1>4

(* A pass begins with what the status records, and ends by storing what it *)
(* knows, or leaves the rest astray.                                       *)
LEMMA PlacementPassesAreRight ==
    ASSUME PlacementInv, StartsSetup \/ Completes_ \/ SetupFails \/ GetsSandbox
    PROVE  PlacementInv'
<1>1. /\ PlacementIsTyped /\ PassIsInOrder /\ PassKnowsThePlaced /\ StatusKnowsThePlaced /\ ImageSkillsStay
      /\ setup \in Placings
    BY PlacementParts
<1>2. NoPlacing \in Placings /\ NoPlacing.at = "idle" /\ NoPlacing.tidied = {} /\ NoPlacing.sources = {} /\ NoPlacing.todo = {}
    BY DEF NoPlacing, Placings, PlacingPCs, Empty
<1>3. (setup' = NoPlacing) => PassIsInOrder' /\ PassKnowsThePlaced'
    BY <1>2 DEF PassIsInOrder, PassKnowsThePlaced, In_
<1>4. CASE StartsSetup
  <2> DEFINE placed == placed_skills(in_guest.box)
  <2>1. /\ setup.at = "idle" /\ UNCHANGED <<manifest, host, in_guest, status, stray, byHand, changes>>
        /\ setup' = [NoPlacing EXCEPT !.at = "syncs", !.skills = manifest.skills, !.own = manifest.own,
                                      !.left = manifest.harnesses, !.placed = placed]
      BY <1>4 DEF StartsSetup, In_
  <2>2. placed \in [Folders -> SUBSET Declarable]
      BY <1>1 DEF placed_skills, Empty, PlacementIsTyped
  <2>3. \A f \in Folders : PlacedIn(f) \subseteq placed[f] \cup stray[f]
      BY <1>1, <2>1 DEF StatusKnowsThePlaced, In_
  <2> HIDE DEF placed
  <2>4. /\ setup' \in Placings /\ setup'.at = "syncs" /\ setup'.placed = placed /\ setup'.tidied = {}
        /\ setup'.sources = {} /\ setup'.todo = {}
      BY <1>1, <1>2, <2>1, <2>2 DEF Placings, PlacingPCs, PlacementIsTyped
  <2> QED
      BY <2>1, <2>3, <2>4, <1>1 DEF PlacementInv, PassKnowsThePlaced, PlacedIn, PassIsInOrder,
         StatusKnowsThePlaced, In_, ImageSkillsStay, PlacementIsTyped
<1>5. CASE Completes_
  <2>1. /\ setup.at = "harness" /\ UNCHANGED <<manifest, host, in_guest, byHand, changes>>
        /\ status' = [box |-> in_guest.box, placed |-> setup.placed]
        /\ stray' = [f \in Folders |-> stray[f] \ setup.placed[f]] /\ setup' = NoPlacing
      BY <1>5 DEF Completes_, In_
  <2> QED
      BY <1>3, <2>1, <1>1, <1>2 DEF PlacementInv, ImageSkillsStay, PassKnowsThePlaced, In_,
         placed_skills, StatusKnowsThePlaced, PlacedIn, PlacementIsTyped, Placings
<1>6. CASE SetupFails
    BY <1>6, PlacedInIs, <1>2, <1>3 DEF SetupFails, PlacementIsTyped, StatusKnowsThePlaced,
       ImageSkillsStay, PlacedIn, placed_skills, PlacementInv
<1>7. CASE GetsSandbox
  <2>1. /\ setup.at = "idle" /\ in_guest.box < MaxSandboxes /\ in_guest' = Image(in_guest.box + 1)
        /\ changes < MaxChanges /\ changes' = changes + 1
        /\ stray' = Empty /\ byHand' = {} /\ UNCHANGED <<manifest, host, status, setup>>
      BY <1>7 DEF GetsSandbox, In_, Changed
  <2>2. in_guest.box + 1 \in 1..MaxSandboxes /\ changes' \in 0..MaxChanges
      BY <1>1, <2>1, PlacementConstants DEF PlacementIsTyped
  <2>5. PlacementIsTyped'
      BY <1>1, <2>1, <2>2, ImageIsRight DEF PlacementIsTyped, Empty
  <2> QED
      BY <2>5, <1>1, <2>1, <2>2, ImageIsRight DEF PlacementInv, PassIsInOrder, Skills,
         PassKnowsThePlaced, In_, StatusKnowsThePlaced, ImageSkillsStay, Shelves, PlacedIn
<1> QED
    BY <1>4, <1>5, <1>6, <1>7

LEMMA ChangesAreRight ==
    ASSUME PlacementInv,
           \/ \E skills \in SUBSET Declarable, own \in BOOLEAN, hs \in SUBSET PlacedHarnesses :
                ChangesManifest(skills, own, hs)
           \/ \E sources \in SUBSET Declarable, overlay \in BOOLEAN : ChangesSources(sources, overlay)
           \/ \E h \in PlacedHarnesses : UserEdits(h)
           \/ UNCHANGED placementVars
    PROVE  PlacementInv'
<1>1. PlacementIsTyped
    BY PlacementParts
<1>2. Changed => changes' \in 0..MaxChanges
    BY <1>1, PlacementConstants DEF Changed, PlacementIsTyped
<1>3. CASE \E skills \in SUBSET Declarable, own \in BOOLEAN, hs \in SUBSET PlacedHarnesses :
             ChangesManifest(skills, own, hs)
    BY <1>1, <1>2, <1>3, OthersPlaceNothing DEF ChangesManifest, PlacementIsTyped
<1>4. CASE \E sources \in SUBSET Declarable, overlay \in BOOLEAN : ChangesSources(sources, overlay)
    BY <1>1, <1>2, <1>4, OthersPlaceNothing DEF ChangesSources, PlacementIsTyped
<1>5. ASSUME NEW h \in PlacedHarnesses, UserEdits(h) PROVE PlacementInv'
  <2>1. PICK file \in {<<>>, <<"user">> \o in_guest.file[h], Append(in_guest.file[h], "user")} :
          in_guest' = [in_guest EXCEPT !.file[h] = file]
      BY <1>5 DEF UserEdits
  <2>3. file \in Seq(Parts)
    <3>2. /\ <<>> \in Seq(Parts) /\ <<"user">> \o in_guest.file[h] \in Seq(Parts)
          /\ Append(in_guest.file[h], "user") \in Seq(Parts)
        BY <1>1 DEF PlacementIsTyped, Parts
    <3> QED
        BY <2>1, <3>2
  <2> QED
      BY <1>1, <1>2, OthersPlaceNothing, <2>1, <2>3, <1>5 DEF PlacementIsTyped, UserEdits
<1>6. CASE UNCHANGED placementVars
    BY <1>1, <1>6, OthersPlaceNothing DEF placementVars, PlacementIsTyped
<1> QED
    BY <1>3, <1>4, <1>5, <1>6

LEMMA PlacementStarts == PlacementInit => PlacementInv
<1> SUFFICES ASSUME PlacementInit PROVE PlacementInv
    OBVIOUS
<1>3. NoPlacing \in Placings /\ NoPlacing.at = "idle" /\ NoPlacing.tidied = {} /\ NoPlacing.sources = {} /\ NoPlacing.todo = {}
    BY DEF NoPlacing, Placings, PlacingPCs, Empty
<1>5. PlacementIsTyped
    BY <1>3, ImageIsRight, PlacementConstants DEF PlacementInit, PlacementIsTyped, Empty
<1> QED
    BY <1>5, <1>3, PlacedInIs, ImageIsRight, PlacementConstants DEF PlacementInv, PassIsInOrder,
       PassKnowsThePlaced, StatusKnowsThePlaced, ImageSkillsStay, In_, PlacementInit

LEMMA PlacementSteps == PlacementInv /\ [PlacementNext]_placementVars => PlacementInv'
BY PlacingStepsAreRight, TidiesIsRight, InstallsSkillIsRight, PlacementPassesAreRight,
   ChangesAreRight DEF PlacementNext

LEMMA PlacementInvIsRecorded == PlacementInv => PlacedIsRecorded
<1> SUFFICES ASSUME PlacementInv PROVE PlacedIsRecorded
    OBVIOUS
<1>2. PlacementTypeOK
  <2>1. \A h \in PlacedHarnesses : \A i \in DOMAIN in_guest.file[h] : in_guest.file[h][i] \in Parts
      BY PlacementParts DEF PlacementIsTyped
  <2> QED
      BY <2>1, PlacementParts DEF PlacementTypeOK, PlacementIsTyped, Placings, Shelves
<1> QED
    BY <1>2, PlacementParts DEF PlacedIsRecorded

(* Whatever the manifest, its sources and the users change meanwhile, and  *)
(* wherever a pass fails: between passes the status names every skill that *)
(* setup placed in the sandbox and that no failed pass left there, and the *)
(* image's own skills stay (sandbox/platform/linux, remove_skills_linux).  *)
THEOREM PlacedStaysRecorded == PlacementSpec => []PlacedIsRecorded
<1>1. PlacementInit => PlacementInv
    BY PlacementStarts
<1>2. PlacementInv /\ [PlacementNext]_placementVars => PlacementInv'
    BY PlacementSteps
<1>3. PlacementInv => PlacedIsRecorded
    BY PlacementInvIsRecorded
<1> QED
    BY <1>1, <1>2, <1>3, PTL DEF PlacementSpec

-----------------------------------------------------------------------------
(* SSH and VNC access.                                                     *)

GrantSteps == {"verify", "host key", "client files", "configuration", "server key",
               "policy", "authorize", "enable", "start"}
WithdrawSteps == {"disable", "remove unit", "remove state", "host material", "host files", "last configuration"}
ViewerSteps == {"grant", "listening", "withdraw", "inactive"}
AccessPasses == [at : GrantSteps \cup WithdrawSteps \cup ViewerSteps \cup {"release", "finalize"},
                 release : BOOLEAN, vnc : BOOLEAN, generation : Nat, changed : BOOLEAN]
AccessGuests == [up : BOOLEAN, key : Nat, policy : Nat, unit : BOOLEAN, enabled : BOOLEAN, authorized : BOOLEAN,
                 server : [key : Nat, policy : Nat], viewer : {"inactive", "starting", "listening"},
                 viewerEnabled : BOOLEAN]

AccessIsTyped ==
    /\ agent \in [Incarnations -> {"absent", "active", "deleting", "gone"}]
    /\ spec \in [Incarnations -> Specs] /\ settled \in [Incarnations -> BOOLEAN]
    /\ host_key \in [Incarnations -> 0..MaxKeys] /\ client \in [Incarnations -> BOOLEAN]
    /\ known \in [Aliases -> 0..MaxKeys] /\ config \in SUBSET Incarnations
    /\ applied \in [Incarnations -> {"unknown", "granted", "withdrawn"}]
    /\ guest \in [Incarnations -> AccessGuests]
    /\ access_pass \in [Incarnations -> AccessPasses \cup {NoAccessPass}]
    /\ made \in 0..MaxKeys /\ applies \in 0..MaxApplies /\ release \in Nat /\ release # 0

Lives(a) == agent[a] \in {"active", "deleting"}
UnderWay(a) == access_pass[a].at # "idle"
At(a, steps) == access_pass[a].at \in steps

(* Two agents never live under one name.                                   *)
NamesAreOwned == \A a, b \in Incarnations : NameOf[a] = NameOf[b] /\ Lives(a) /\ Lives(b) => a = b

(* A pass that would settle the agent: of the declared access as it is.    *)
IsCurrent(a) == UnderWay(a) /\ agent[a] = "active" /\ access_pass[a].generation = spec[a].generation

GenerationsAreKnown(a) ==
    spec[a].generation <= applies /\ (UnderWay(a) => access_pass[a].generation <= applies)

PassIsDue(a) ==
    /\ UnderWay(a) => Lives(a)
    /\ UnderWay(a) /\ access_pass[a].release => agent[a] = "deleting" /\ ~At(a, GrantSteps \cup ViewerSteps)
    /\ At(a, {"release", "finalize"}) => access_pass[a].release
    /\ At(a, {"disable", "remove unit", "remove state"}) => ~access_pass[a].release
    /\ At(a, {"grant", "listening"}) => access_pass[a].vnc
    /\ At(a, {"withdraw", "inactive"}) => ~access_pass[a].vnc
    /\ IsCurrent(a) => /\ (access_pass[a].vnc <=> spec[a].vnc)
                       /\ At(a, GrantSteps) => spec[a].ssh
                       /\ At(a, WithdrawSteps) => ~spec[a].ssh
    /\ settled[a] => agent[a] = "active" /\ (UnderWay(a) => IsCurrent(a))

(* What starts the server at a boot was written after the host knew its    *)
(* key, and is gone before the host forgets it.                            *)
GuestIsInOrder(a) ==
    /\ ~Lives(a) => guest[a] = NoGuest
    /\ guest[a].enabled \/ guest[a].server # Off => guest[a].unit
    /\ guest[a].unit => guest[a].policy # 0
    /\ guest[a].key # NoKey => guest[a].key = host_key[a] /\ known[a] = host_key[a]
    /\ guest[a].server # Off => /\ guest[a].key # NoKey /\ guest[a].server.key = guest[a].key
                                /\ guest[a].server.policy # 0
    /\ guest[a].server # Off \/ guest[a].viewer # "inactive" => guest[a].up
    /\ At(a, {"authorize", "enable", "start"}) => guest[a].unit
    /\ At(a, {"enable", "start"}) => guest[a].authorized
    /\ At(a, {"start"}) => guest[a].enabled
    /\ At(a, {"remove unit", "remove state", "host material", "host files", "last configuration"}) =>
          ~guest[a].enabled /\ guest[a].server = Off
    /\ At(a, {"remove state"}) => ~guest[a].unit
    /\ At(a, {"host material", "host files", "last configuration"}) => guest[a].key = NoKey
    /\ UnderWay(a) /\ access_pass[a].release /\ ~At(a, {"release"}) => guest[a] = NoGuest

(* What a pass has written on the host by the step it is at.               *)
HostIsInOrder(a) ==
    /\ At(a, GrantSteps \ {"verify", "host key"}) => host_key[a] # NoKey
    /\ At(a, GrantSteps \ {"verify", "host key", "client files"}) =>
          client[a] /\ known[a] = host_key[a] /\ known[NameOf[a]] = host_key[a]
    /\ At(a, {"server key", "policy", "authorize", "enable", "start"}) /\ IsCurrent(a) => a \in config
    /\ At(a, {"host files", "last configuration", "finalize"}) => host_key[a] = NoKey
    /\ At(a, {"last configuration", "finalize"}) => known[a] = NoKey /\ ~client[a]
    /\ At(a, {"finalize"}) => a \notin config
    /\ agent[a] = "gone" => host_key[a] = NoKey /\ known[a] = NoKey /\ ~client[a] /\ a \notin config

CanBeReached(a) ==
    /\ host_key[a] # NoKey /\ client[a] /\ a \in config
    /\ known[a] = host_key[a] /\ known[NameOf[a]] = host_key[a]
    /\ guest[a].authorized /\ guest[a].enabled
IsWithdrawn(a) ==
    /\ guest[a].server = Off /\ ~guest[a].enabled /\ guest[a].key = NoKey
    /\ host_key[a] = NoKey /\ known[a] = NoKey /\ a \notin config

SshIsAsDeclared(a) ==
    settled[a] \/ (IsCurrent(a) /\ At(a, ViewerSteps)) =>
        IF spec[a].ssh THEN CanBeReached(a) ELSE IsWithdrawn(a)

(* A server with another policy than the files is one that some pass is    *)
(* about to restart, or was to when it was cut short.                      *)
PolicyIsSeen(a) ==
    guest[a].server # Off /\ guest[a].server.policy # guest[a].policy =>
        <<a, "policy">> \in cut \/ (At(a, {"authorize", "enable", "start"}) /\ access_pass[a].changed)

ViewerIsOff(a) == guest[a].viewer = "inactive" /\ ~guest[a].viewerEnabled
ViewerIsSeen(a) ==
    /\ applied[a] = "withdrawn" => ViewerIsOff(a) \/ <<a, "viewer">> \in cut \/ At(a, {"listening"})
    /\ At(a, {"inactive"}) => ViewerIsOff(a)
    /\ settled[a] /\ ~spec[a].vnc => ViewerIsOff(a) \/ <<a, "viewer">> \in cut

AccessIsSound(a) == /\ GenerationsAreKnown(a) /\ PassIsDue(a) /\ GuestIsInOrder(a) /\ HostIsInOrder(a)
                    /\ SshIsAsDeclared(a) /\ PolicyIsSeen(a) /\ ViewerIsSeen(a)

AccessInv ==
    AccessIsTyped /\ NamesAreOwned /\ NameIsItsOwners /\ \A a \in Incarnations : AccessIsSound(a)

(* One actor moves: what is kept of every other agent stays, except that   *)
(* the configuration may be written again.                                 *)
MovesAlone(x) ==
    /\ applies <= applies'
    /\ \A b \in Incarnations \ {x} :
        /\ agent'[b] = agent[b] /\ spec'[b] = spec[b] /\ settled'[b] = settled[b]
        /\ host_key'[b] = host_key[b] /\ client'[b] = client[b] /\ known'[b] = known[b]
        /\ applied'[b] = applied[b] /\ guest'[b] = guest[b] /\ access_pass'[b] = access_pass[b]
        /\ Lives(b) => known'[NameOf[b]] = known[NameOf[b]]
        /\ (b \in config' <=> b \in config) \/ (b \in config' <=> b \in Listed)
        /\ <<b, "policy">> \in cut => <<b, "policy">> \in cut'
        /\ <<b, "viewer">> \in cut => <<b, "viewer">> \in cut'

LEMMA AccessParts ==
    ASSUME AccessInv
    PROVE  /\ AccessIsTyped /\ NamesAreOwned /\ NameIsItsOwners
           /\ \A a \in Incarnations :
                /\ GenerationsAreKnown(a) /\ PassIsDue(a) /\ GuestIsInOrder(a) /\ HostIsInOrder(a)
                /\ SshIsAsDeclared(a) /\ PolicyIsSeen(a) /\ ViewerIsSeen(a)
BY DEF AccessInv, AccessIsSound

(* The values of one agent, and the aliases, which are numbers apart.      *)
LEMMA AccessFields ==
    ASSUME AccessIsTyped, NEW a \in Incarnations
    PROVE  /\ agent[a] \in {"absent", "active", "deleting", "gone"} /\ spec[a] \in Specs /\ settled[a] \in BOOLEAN
           /\ spec[a].ssh \in BOOLEAN /\ spec[a].vnc \in BOOLEAN /\ spec[a].generation \in Nat
           /\ host_key[a] \in 0..MaxKeys /\ host_key[a] \in Nat /\ client[a] \in BOOLEAN /\ known[a] \in Nat
           /\ known[NameOf[a]] \in Nat
           /\ applied[a] \in {"unknown", "granted", "withdrawn"} /\ guest[a] \in AccessGuests
           /\ access_pass[a] \in AccessPasses \cup {NoAccessPass}
           /\ a \in Aliases /\ NameOf[a] \in Aliases /\ NameOf[a] \in Names /\ a \in Nat /\ NameOf[a] \in Nat
           /\ \A b \in Incarnations : NameOf[b] # a
           /\ applies \in Nat /\ made \in Nat
BY AccessConstants DEF Aliases, Names, AccessIsTyped, Specs

LEMMA PassFields ==
    ASSUME AccessIsTyped, NEW a \in Incarnations
    PROVE  /\ access_pass[a] # NoAccessPass <=> UnderWay(a)
           /\ UnderWay(a) => /\ access_pass[a] \in AccessPasses
                           /\ access_pass[a].at \in GrantSteps \cup WithdrawSteps \cup ViewerSteps \cup {"release", "finalize"}
                           /\ access_pass[a].release \in BOOLEAN /\ access_pass[a].vnc \in BOOLEAN
                           /\ access_pass[a].changed \in BOOLEAN /\ access_pass[a].generation \in Nat
           /\ ~UnderWay(a) => access_pass[a].at = "idle"
<1>1. NoAccessPass.at = "idle"
    BY DEF NoAccessPass
<1> QED
    BY <1>1, AccessFields DEF UnderWay, AccessPasses, GrantSteps, WithdrawSteps, ViewerSteps

LEMMA OthersStaySound ==
    ASSUME AccessInv, AccessIsTyped', NEW x \in Incarnations, MovesAlone(x)
    PROVE  \A b \in Incarnations \ {x} : AccessIsSound(b)'
<1> SUFFICES ASSUME NEW b \in Incarnations \ {x} PROVE AccessIsSound(b)'
    OBVIOUS
<1>1. /\ agent'[b] = agent[b] /\ spec'[b] = spec[b] /\ settled'[b] = settled[b]
      /\ host_key'[b] = host_key[b] /\ client'[b] = client[b] /\ known'[b] = known[b]
      /\ applied'[b] = applied[b] /\ guest'[b] = guest[b] /\ access_pass'[b] = access_pass[b]
      /\ Lives(b) => known'[NameOf[b]] = known[NameOf[b]]
      /\ (b \in config' <=> b \in config) \/ (b \in config' <=> agent[b] = "active" /\ spec[b].ssh)
      /\ <<b, "policy">> \in cut => <<b, "policy">> \in cut'
      /\ <<b, "viewer">> \in cut => <<b, "viewer">> \in cut'
    BY DEF MovesAlone, Listed
<1>4. GenerationsAreKnown(b) /\ PassIsDue(b) /\ GuestIsInOrder(b) /\ HostIsInOrder(b) /\ SshIsAsDeclared(b) /\ PolicyIsSeen(b) /\ ViewerIsSeen(b)
    BY AccessParts
<1>5. GenerationsAreKnown(b)'
    BY AccessParts, AccessFields, PassFields, <1>1, AccessConstants DEF GenerationsAreKnown,
       MovesAlone, AccessIsTyped, UnderWay, IsCurrent, At, Lives
<1>10. PassIsDue(b)'
    BY <1>1, <1>4 DEF PassIsDue, UnderWay, IsCurrent, At, Lives
<1>6. GuestIsInOrder(b)'
    BY <1>1, <1>4 DEF GuestIsInOrder, UnderWay, IsCurrent, At, Lives
<1>7. HostIsInOrder(b)'
    BY <1>4, <1>1 DEF At, PassIsDue, UnderWay, GrantSteps, IsCurrent, HostIsInOrder
<1>8. SshIsAsDeclared(b)'
    BY <1>4, <1>1 DEF PassIsDue, IsCurrent, Lives, SshIsAsDeclared, CanBeReached, IsWithdrawn,
       UnderWay, At
<1> QED
    BY <1>5, <1>6, <1>7, <1>8, <1>10, <1>1, <1>4 DEF AccessIsSound, PolicyIsSeen, ViewerIsSeen,
       ViewerIsOff, UnderWay, IsCurrent, At, Lives

LEMMA AccessStarts == AccessInit => AccessInv
<1> SUFFICES ASSUME AccessInit PROVE AccessInv
    OBVIOUS
<1>1. NewGuest \in AccessGuests /\ NoGuest \in AccessGuests
    BY DEF NewGuest, NoGuest, AccessGuests, Off, NoKey
<1>2. AccessIsTyped
    BY <1>1, AccessConstants DEF AccessInit, AccessIsTyped, Specs, NoKey
<1>4. ASSUME NEW a \in Incarnations PROVE AccessIsSound(a)
  <2>1. /\ agent[a] = "absent" /\ ~settled[a] /\ access_pass[a].at = "idle" /\ ~UnderWay(a) /\ ~IsCurrent(a)
        /\ spec[a].generation = 0 /\ applies = 0 /\ guest[a] = NoGuest /\ applied[a] = "unknown"
      BY DEF AccessInit, NoAccessPass, UnderWay, IsCurrent
  <2>2. /\ NoGuest.server = Off /\ NoGuest.key = NoKey /\ ~NoGuest.enabled /\ ~NoGuest.unit /\ NoGuest.viewer = "inactive"
      BY DEF NoGuest, NewGuest
  <2>8. GenerationsAreKnown(a)
      BY <2>1 DEF GenerationsAreKnown
  <2>4. PassIsDue(a)
      BY <2>1 DEF PassIsDue, GrantSteps, WithdrawSteps, ViewerSteps, At
  <2> QED
      BY <2>4, <2>8, <2>1, <2>2 DEF AccessIsSound, SshIsAsDeclared, PolicyIsSeen, ViewerIsSeen,
         HostIsInOrder, GrantSteps, GuestIsInOrder, At
<1> QED
    BY <1>2, <1>4 DEF AccessInv, AccessInit, NamesAreOwned, NameIsItsOwners, Lives, Names, Aliases

Steps == GrantSteps \cup WithdrawSteps \cup ViewerSteps \cup {"release", "finalize"}

(* A step in the guest, by the pass of one agent.                          *)
LEMMA GuestMoves ==
    ASSUME AccessInv, NEW a \in Incarnations, NEW g \in AccessGuests, NEW p \in AccessPasses \cup {NoAccessPass},
           guest' = [guest EXCEPT ![a] = g], access_pass' = [access_pass EXCEPT ![a] = p],
           UNCHANGED <<agent, spec, applies, settled, host_key, client, known, config, applied, made, release, cut>>
    PROVE  /\ guest'[a] = g /\ access_pass'[a] = p
           /\ AccessIsTyped' /\ NamesAreOwned' /\ NameIsItsOwners'
           /\ \A b \in Incarnations \ {a} : AccessIsSound(b)'
BY AccessParts, OthersStaySound DEF AccessIsTyped, NamesAreOwned, NameIsItsOwners, Lives, MovesAlone

LEMMA InGuestMoves ==
    ASSUME AccessInv, NEW a \in Incarnations, NEW from \in Steps, NEW to \in Steps, NEW g \in AccessGuests,
           InGuest(a, from, to, g)
    PROVE  /\ guest'[a] = g /\ access_pass'[a] = [access_pass[a] EXCEPT !.at = to]
           /\ access_pass[a] \in AccessPasses /\ access_pass[a].at = from /\ guest[a].up
           /\ UNCHANGED <<agent, spec, applies, settled, host_key, client, known, config, applied, made, release, cut>>
           /\ AccessIsTyped' /\ NamesAreOwned' /\ NameIsItsOwners'
           /\ \A b \in Incarnations \ {a} : AccessIsSound(b)'
<1>3. PICK p : p = [access_pass[a] EXCEPT !.at = to]
    OBVIOUS
<1>4. p \in AccessPasses
    BY <1>3, PassFields, AccessParts DEF AccessPasses, Steps, InGuest, PassAt
<1> QED
    BY <1>3, <1>4, GuestMoves, PassFields, AccessParts DEF InGuest, userVars, hostVars, To, PassAt

(* What a step leaves of the pass and of the agent's place.                *)
LEMMA StepOfPass ==
    ASSUME AccessInv, NEW a \in Incarnations, NEW to \in Steps,
           access_pass[a] \in AccessPasses, access_pass'[a] = [access_pass[a] EXCEPT !.at = to],
           agent'[a] = agent[a], spec'[a] = spec[a], settled'[a] = settled[a], applies' = applies
    PROVE  /\ access_pass'[a].at = to /\ \A s : At(a, s)' <=> to \in s
           /\ access_pass'[a].release = access_pass[a].release /\ access_pass'[a].vnc = access_pass[a].vnc
           /\ access_pass'[a].generation = access_pass[a].generation /\ access_pass'[a].changed = access_pass[a].changed
           /\ UnderWay(a) /\ UnderWay(a)' /\ Lives(a) /\ Lives(a)' /\ (IsCurrent(a)' <=> IsCurrent(a))
           /\ \A s : At(a, s) <=> access_pass[a].at \in s
           /\ GenerationsAreKnown(a)'
<1>1. access_pass[a].at # "idle" /\ to # "idle"
    BY DEF AccessPasses, Steps, GrantSteps, WithdrawSteps, ViewerSteps
<1> QED
    BY AccessParts, <1>1 DEF At, GenerationsAreKnown, PassIsDue, UnderWay, IsCurrent, Lives,
       AccessPasses

LEMMA GuestParts ==
    ASSUME AccessIsTyped, NEW a \in Incarnations
    PROVE  /\ guest[a] \in AccessGuests
           /\ guest[a].up \in BOOLEAN /\ guest[a].unit \in BOOLEAN /\ guest[a].enabled \in BOOLEAN
           /\ guest[a].authorized \in BOOLEAN /\ guest[a].viewerEnabled \in BOOLEAN
           /\ guest[a].key \in Nat /\ guest[a].policy \in Nat
           /\ guest[a].server \in [key : Nat, policy : Nat]
           /\ guest[a].viewer \in {"inactive", "starting", "listening"}
BY AccessFields DEF AccessGuests


LEMMA VerifyKeeps ==
    ASSUME AccessInv, NEW a \in Incarnations, verify_server(a)
    PROVE  AccessInv'
<1>1. AccessIsTyped /\ guest[a] \in AccessGuests /\ "verify" \in Steps
    BY AccessParts, AccessFields DEF Steps, GrantSteps, WithdrawSteps, ViewerSteps
<1>2. PICK h, g, to : h = guest[a] /\ g = h /\ to = "host key"
    OBVIOUS
<1>4. g \in AccessGuests /\ to \in Steps
    BY <1>1, <1>2 DEF AccessGuests, Steps, GrantSteps, WithdrawSteps, ViewerSteps
<1>5. /\ guest'[a] = g /\ access_pass'[a] = [access_pass[a] EXCEPT !.at = to]
      /\ access_pass[a] \in AccessPasses /\ access_pass[a].at = "verify" /\ guest[a].up
      /\ UNCHANGED <<agent, spec, applies, settled, host_key, client, known, config, applied, made, release, cut>>
      /\ AccessIsTyped' /\ NamesAreOwned' /\ NameIsItsOwners'
      /\ \A b \in Incarnations \ {a} : AccessIsSound(b)'
    BY <1>1, <1>4, InGuestMoves, <1>2 DEF verify_server
<1>6. /\ guest'[a].up = guest[a].up /\ guest'[a].key = guest[a].key /\ guest'[a].policy = guest[a].policy
      /\ guest'[a].unit = guest[a].unit /\ guest'[a].enabled = guest[a].enabled /\ guest'[a].authorized = guest[a].authorized
      /\ guest'[a].server = guest[a].server /\ guest'[a].viewer = guest[a].viewer /\ guest'[a].viewerEnabled = guest[a].viewerEnabled
    BY <1>2, <1>5
<1>7. AccessIsSound(a)'
  <2>1. /\ PassIsDue(a) /\ GuestIsInOrder(a) /\ HostIsInOrder(a)
        /\ SshIsAsDeclared(a) /\ PolicyIsSeen(a) /\ ViewerIsSeen(a)
      BY AccessParts
  <2>2. /\ access_pass'[a].at = to
        /\ access_pass'[a].release = access_pass[a].release /\ access_pass'[a].vnc = access_pass[a].vnc
        /\ access_pass'[a].changed = access_pass[a].changed
        /\ UnderWay(a) /\ UnderWay(a)' /\ Lives(a) /\ Lives(a)' /\ (IsCurrent(a)' <=> IsCurrent(a))
        /\ GenerationsAreKnown(a)'
      BY <1>4, <1>5, StepOfPass
  <2>4. PassIsDue(a)'
      BY <1>2, <1>5, <2>1, <2>2 DEF PassIsDue, GrantSteps, WithdrawSteps, ViewerSteps, At,
         AccessPasses
  <2>5. GuestIsInOrder(a)'
      BY ZenonT(60), <1>2, <1>5, <1>6, <2>1, <2>2 DEF GuestIsInOrder, PassIsDue, HostIsInOrder, GrantSteps, WithdrawSteps, ViewerSteps, At
  <2>6. HostIsInOrder(a)'
      BY <1>2, <1>5, <2>1, <2>2 DEF HostIsInOrder, GrantSteps, WithdrawSteps, ViewerSteps, At
  <2>7. SshIsAsDeclared(a)'
      BY <1>2, <1>5, <1>6, <2>1, <2>2 DEF SshIsAsDeclared, CanBeReached, IsWithdrawn, PassIsDue, GuestIsInOrder, HostIsInOrder, GrantSteps, WithdrawSteps, ViewerSteps, At
  <2>8. PolicyIsSeen(a)'
      BY <1>2, <1>5, <1>6, <2>1, <2>2 DEF PolicyIsSeen, GuestIsInOrder, At, AccessPasses
  <2>9. ViewerIsSeen(a)'
      BY <1>2, <1>5, <1>6, <2>1, <2>2 DEF ViewerIsSeen, ViewerIsOff, PassIsDue, At
  <2> QED
      BY <2>2, <2>4, <2>5, <2>6, <2>7, <2>8, <2>9 DEF AccessIsSound
<1> QED
    BY <1>5, <1>7 DEF AccessInv

LEMMA AuthorizeKeeps ==
    ASSUME AccessInv, NEW a \in Incarnations, WritesAuthorizedKeys(a)
    PROVE  AccessInv'
<1>1. AccessIsTyped /\ guest[a] \in AccessGuests /\ "authorize" \in Steps
    BY AccessParts, AccessFields DEF Steps, GrantSteps, WithdrawSteps, ViewerSteps
<1>2. PICK h, g, to : h = guest[a] /\ g = [h EXCEPT !.authorized = TRUE] /\ to = "enable"
    OBVIOUS
<1>4. g \in AccessGuests /\ to \in Steps
    BY <1>1, <1>2 DEF AccessGuests, Steps, GrantSteps, WithdrawSteps, ViewerSteps
<1>5. /\ guest'[a] = g /\ access_pass'[a] = [access_pass[a] EXCEPT !.at = to]
      /\ access_pass[a] \in AccessPasses /\ access_pass[a].at = "authorize" /\ guest[a].up
      /\ UNCHANGED <<agent, spec, applies, settled, host_key, client, known, config, applied, made, release, cut>>
      /\ AccessIsTyped' /\ NamesAreOwned' /\ NameIsItsOwners'
      /\ \A b \in Incarnations \ {a} : AccessIsSound(b)'
    BY <1>1, <1>4, InGuestMoves, <1>2 DEF WritesAuthorizedKeys
<1>6. /\ guest'[a].up = guest[a].up /\ guest'[a].key = guest[a].key /\ guest'[a].policy = guest[a].policy
      /\ guest'[a].unit = guest[a].unit /\ guest'[a].enabled = guest[a].enabled /\ guest'[a].authorized
      /\ guest'[a].server = guest[a].server /\ guest'[a].viewer = guest[a].viewer /\ guest'[a].viewerEnabled = guest[a].viewerEnabled
  <2>2. /\ g.up = h.up /\ g.key = h.key /\ g.policy = h.policy
      /\ g.unit = h.unit /\ g.enabled = h.enabled /\ g.authorized
      /\ g.server = h.server /\ g.viewer = h.viewer /\ g.viewerEnabled = h.viewerEnabled
      BY <1>1, <1>2 DEF AccessGuests
  <2> QED
      BY <1>2, <1>5, <2>2
<1>7. AccessIsSound(a)'
  <2>1. /\ PassIsDue(a) /\ GuestIsInOrder(a) /\ HostIsInOrder(a)
        /\ SshIsAsDeclared(a) /\ PolicyIsSeen(a) /\ ViewerIsSeen(a)
      BY AccessParts
  <2>2. /\ access_pass'[a].at = to
        /\ access_pass'[a].release = access_pass[a].release /\ access_pass'[a].vnc = access_pass[a].vnc
        /\ access_pass'[a].changed = access_pass[a].changed
        /\ UnderWay(a) /\ UnderWay(a)' /\ Lives(a) /\ Lives(a)' /\ (IsCurrent(a)' <=> IsCurrent(a))
        /\ GenerationsAreKnown(a)'
      BY <1>4, <1>5, StepOfPass
  <2>4. PassIsDue(a)'
      BY <1>2, <1>5, <2>1, <2>2 DEF PassIsDue, GrantSteps, WithdrawSteps, ViewerSteps, At,
         AccessPasses
  <2>5. GuestIsInOrder(a)'
      BY ZenonT(60), <1>2, <1>5, <1>6, <2>1, <2>2 DEF GuestIsInOrder, PassIsDue, HostIsInOrder, GrantSteps, WithdrawSteps, ViewerSteps, At
  <2>6. HostIsInOrder(a)'
      BY <1>2, <1>5, <2>1, <2>2 DEF HostIsInOrder, GrantSteps, WithdrawSteps, ViewerSteps, At
  <2>7. SshIsAsDeclared(a)'
      BY <1>2, <1>5, <1>6, <2>1, <2>2 DEF SshIsAsDeclared, CanBeReached, IsWithdrawn, PassIsDue, GuestIsInOrder, HostIsInOrder, GrantSteps, WithdrawSteps, ViewerSteps, At
  <2>8. PolicyIsSeen(a)'
      BY <1>2, <1>5, <1>6, <2>1, <2>2 DEF PolicyIsSeen, GuestIsInOrder, At, AccessPasses
  <2>9. ViewerIsSeen(a)'
      BY <1>2, <1>5, <1>6, <2>1, <2>2 DEF ViewerIsSeen, ViewerIsOff, PassIsDue, At
  <2> QED
      BY <2>2, <2>4, <2>5, <2>6, <2>7, <2>8, <2>9 DEF AccessIsSound
<1> QED
    BY <1>5, <1>7 DEF AccessInv

LEMMA EnableKeeps ==
    ASSUME AccessInv, NEW a \in Incarnations, EnablesServer(a)
    PROVE  AccessInv'
<1>1. AccessIsTyped /\ guest[a] \in AccessGuests /\ "enable" \in Steps
    BY AccessParts, AccessFields DEF Steps, GrantSteps, WithdrawSteps, ViewerSteps
<1>2. PICK h, g, to : h = guest[a] /\ g = [h EXCEPT !.enabled = TRUE] /\ to = "start"
    OBVIOUS
<1>4. g \in AccessGuests /\ to \in Steps
    BY <1>1, <1>2 DEF AccessGuests, Steps, GrantSteps, WithdrawSteps, ViewerSteps
<1>5. /\ guest'[a] = g /\ access_pass'[a] = [access_pass[a] EXCEPT !.at = to]
      /\ access_pass[a] \in AccessPasses /\ access_pass[a].at = "enable" /\ guest[a].up
      /\ UNCHANGED <<agent, spec, applies, settled, host_key, client, known, config, applied, made, release, cut>>
      /\ AccessIsTyped' /\ NamesAreOwned' /\ NameIsItsOwners'
      /\ \A b \in Incarnations \ {a} : AccessIsSound(b)'
    BY <1>1, <1>4, InGuestMoves, <1>2 DEF EnablesServer
<1>6. /\ guest'[a].up = guest[a].up /\ guest'[a].key = guest[a].key /\ guest'[a].policy = guest[a].policy
      /\ guest'[a].unit = guest[a].unit /\ guest'[a].enabled /\ guest'[a].authorized = guest[a].authorized
      /\ guest'[a].server = guest[a].server /\ guest'[a].viewer = guest[a].viewer /\ guest'[a].viewerEnabled = guest[a].viewerEnabled
  <2>2. /\ g.up = h.up /\ g.key = h.key /\ g.policy = h.policy
      /\ g.unit = h.unit /\ g.enabled /\ g.authorized = h.authorized
      /\ g.server = h.server /\ g.viewer = h.viewer /\ g.viewerEnabled = h.viewerEnabled
      BY <1>1, <1>2 DEF AccessGuests
  <2> QED
      BY <1>2, <1>5, <2>2
<1>7. AccessIsSound(a)'
  <2>1. /\ PassIsDue(a) /\ GuestIsInOrder(a) /\ HostIsInOrder(a)
        /\ SshIsAsDeclared(a) /\ PolicyIsSeen(a) /\ ViewerIsSeen(a)
      BY AccessParts
  <2>2. /\ access_pass'[a].at = to
        /\ access_pass'[a].release = access_pass[a].release /\ access_pass'[a].vnc = access_pass[a].vnc
        /\ access_pass'[a].changed = access_pass[a].changed
        /\ UnderWay(a) /\ UnderWay(a)' /\ Lives(a) /\ Lives(a)' /\ (IsCurrent(a)' <=> IsCurrent(a))
        /\ GenerationsAreKnown(a)'
      BY <1>4, <1>5, StepOfPass
  <2>4. PassIsDue(a)'
      BY <1>2, <1>5, <2>1, <2>2 DEF PassIsDue, GrantSteps, WithdrawSteps, ViewerSteps, At,
         AccessPasses
  <2>5. GuestIsInOrder(a)'
      BY ZenonT(60), <1>2, <1>5, <1>6, <2>1, <2>2 DEF GuestIsInOrder, PassIsDue, HostIsInOrder, GrantSteps, WithdrawSteps, ViewerSteps, At
  <2>6. HostIsInOrder(a)'
      BY <1>2, <1>5, <2>1, <2>2 DEF HostIsInOrder, GrantSteps, WithdrawSteps, ViewerSteps, At
  <2>7. SshIsAsDeclared(a)'
      BY <1>2, <1>5, <1>6, <2>1, <2>2 DEF SshIsAsDeclared, CanBeReached, IsWithdrawn, PassIsDue, GuestIsInOrder, HostIsInOrder, GrantSteps, WithdrawSteps, ViewerSteps, At
  <2>8. PolicyIsSeen(a)'
      BY <1>2, <1>5, <1>6, <2>1, <2>2 DEF PolicyIsSeen, GuestIsInOrder, At, AccessPasses
  <2>9. ViewerIsSeen(a)'
      BY <1>2, <1>5, <1>6, <2>1, <2>2 DEF ViewerIsSeen, ViewerIsOff, PassIsDue, At
  <2> QED
      BY <2>2, <2>4, <2>5, <2>6, <2>7, <2>8, <2>9 DEF AccessIsSound
<1> QED
    BY <1>5, <1>7 DEF AccessInv

LEMMA StartKeeps ==
    ASSUME AccessInv, NEW a \in Incarnations, StartsServer(a)
    PROVE  AccessInv'
<1>1. AccessIsTyped /\ guest[a] \in AccessGuests /\ "start" \in Steps
    BY AccessParts, AccessFields DEF Steps, GrantSteps, WithdrawSteps, ViewerSteps
<1>2. PICK h, g, to : h = guest[a] /\ g = [h EXCEPT !.server = IF access_pass[a].changed \/ @ = Off THEN Served(h) ELSE @] /\ to = (IF access_pass[a].vnc THEN "grant" ELSE "withdraw")
    OBVIOUS
<1>4. g \in AccessGuests /\ to \in Steps
    BY <1>1, <1>2 DEF AccessGuests, Steps, GrantSteps, WithdrawSteps, ViewerSteps, Served, Off, NoKey
<1>5. /\ guest'[a] = g /\ access_pass'[a] = [access_pass[a] EXCEPT !.at = to]
      /\ access_pass[a] \in AccessPasses /\ access_pass[a].at = "start" /\ guest[a].up
      /\ UNCHANGED <<agent, spec, applies, settled, host_key, client, known, config, applied, made, release, cut>>
      /\ AccessIsTyped' /\ NamesAreOwned' /\ NameIsItsOwners'
      /\ \A b \in Incarnations \ {a} : AccessIsSound(b)'
    BY <1>1, <1>4, InGuestMoves, <1>2 DEF StartsServer
<1>6. /\ guest'[a].up = guest[a].up /\ guest'[a].key = guest[a].key /\ guest'[a].policy = guest[a].policy
      /\ guest'[a].unit = guest[a].unit /\ guest'[a].enabled = guest[a].enabled /\ guest'[a].authorized = guest[a].authorized
      /\ guest'[a].server = (IF access_pass[a].changed \/ guest[a].server = Off THEN Served(guest[a]) ELSE guest[a].server) /\ guest'[a].viewer = guest[a].viewer /\ guest'[a].viewerEnabled = guest[a].viewerEnabled
  <2>2. /\ g.up = h.up /\ g.key = h.key /\ g.policy = h.policy
      /\ g.unit = h.unit /\ g.enabled = h.enabled /\ g.authorized = h.authorized
      /\ g.server = (IF access_pass[a].changed \/ h.server = Off THEN Served(h) ELSE h.server) /\ g.viewer = h.viewer /\ g.viewerEnabled = h.viewerEnabled
      BY <1>1, <1>2 DEF AccessGuests
  <2> QED
      BY <1>2, <1>5, <2>2
<1>7. AccessIsSound(a)'
  <2>1. /\ PassIsDue(a) /\ GuestIsInOrder(a) /\ HostIsInOrder(a)
        /\ SshIsAsDeclared(a) /\ PolicyIsSeen(a) /\ ViewerIsSeen(a)
      BY AccessParts
  <2>2. /\ access_pass'[a].at = to
        /\ access_pass'[a].release = access_pass[a].release /\ access_pass'[a].vnc = access_pass[a].vnc
        /\ access_pass'[a].changed = access_pass[a].changed
        /\ UnderWay(a) /\ UnderWay(a)' /\ Lives(a) /\ Lives(a)' /\ (IsCurrent(a)' <=> IsCurrent(a))
        /\ GenerationsAreKnown(a)'
      BY <1>4, <1>5, StepOfPass
  <2>4. PassIsDue(a)'
      BY <1>2, <1>5, <2>1, <2>2 DEF PassIsDue, GrantSteps, WithdrawSteps, ViewerSteps, At,
         AccessPasses
  <2>5. GuestIsInOrder(a)'
      BY SMTT(60), <1>2, <1>5, <1>6, <2>1, <2>2 DEF GuestIsInOrder, PassIsDue, HostIsInOrder, GrantSteps, WithdrawSteps, ViewerSteps, Served, Off, NoKey, At
  <2>6. HostIsInOrder(a)'
      BY <1>2, <1>5, <2>1, <2>2 DEF HostIsInOrder, GrantSteps, WithdrawSteps, ViewerSteps, At
  <2>7. SshIsAsDeclared(a)'
      BY <1>2, <1>5, <1>6, <2>1, <2>2 DEF SshIsAsDeclared, CanBeReached, IsWithdrawn, PassIsDue, GuestIsInOrder, HostIsInOrder, GrantSteps, WithdrawSteps, ViewerSteps, Served, Off, NoKey, At
  <2>8. PolicyIsSeen(a)'
      BY <1>2, <1>5, <1>6, <2>1, <2>2 DEF PolicyIsSeen, GuestIsInOrder, Served, Off, NoKey, At,
         AccessPasses
  <2>9. ViewerIsSeen(a)'
      BY <1>2, <1>5, <1>6, <2>1, <2>2 DEF ViewerIsSeen, ViewerIsOff, PassIsDue, At
  <2> QED
      BY <2>2, <2>4, <2>5, <2>6, <2>7, <2>8, <2>9 DEF AccessIsSound
<1> QED
    BY <1>5, <1>7 DEF AccessInv

LEMMA DisableKeeps ==
    ASSUME AccessInv, NEW a \in Incarnations, DisablesServer(a)
    PROVE  AccessInv'
<1>1. AccessIsTyped /\ guest[a] \in AccessGuests /\ "disable" \in Steps
    BY AccessParts, AccessFields DEF Steps, GrantSteps, WithdrawSteps, ViewerSteps
<1>2. PICK h, g, to : h = guest[a] /\ g = (IF HasState(h) THEN [h EXCEPT !.enabled = FALSE, !.server = Off] ELSE h) /\ to = (IF HasState(h) THEN "remove unit" ELSE "host material")
    OBVIOUS
<1>4. g \in AccessGuests /\ to \in Steps
    BY <1>1, <1>2 DEF AccessGuests, Steps, GrantSteps, WithdrawSteps, ViewerSteps, HasState, Off, NoKey
<1>5. /\ guest'[a] = g /\ access_pass'[a] = [access_pass[a] EXCEPT !.at = to]
      /\ access_pass[a] \in AccessPasses /\ access_pass[a].at = "disable" /\ guest[a].up
      /\ UNCHANGED <<agent, spec, applies, settled, host_key, client, known, config, applied, made, release, cut>>
      /\ AccessIsTyped' /\ NamesAreOwned' /\ NameIsItsOwners'
      /\ \A b \in Incarnations \ {a} : AccessIsSound(b)'
    BY <1>1, <1>4, InGuestMoves, <1>2 DEF DisablesServer
<1>6. /\ guest'[a].up = guest[a].up /\ guest'[a].key = guest[a].key /\ guest'[a].policy = guest[a].policy
      /\ guest'[a].unit = guest[a].unit /\ (guest'[a].enabled <=> ~HasState(guest[a]) /\ guest[a].enabled) /\ guest'[a].authorized = guest[a].authorized
      /\ guest'[a].server = (IF HasState(guest[a]) THEN Off ELSE guest[a].server) /\ guest'[a].viewer = guest[a].viewer /\ guest'[a].viewerEnabled = guest[a].viewerEnabled
  <2>2. /\ g.up = h.up /\ g.key = h.key /\ g.policy = h.policy
      /\ g.unit = h.unit /\ (g.enabled <=> ~HasState(h) /\ h.enabled) /\ g.authorized = h.authorized
      /\ g.server = (IF HasState(h) THEN Off ELSE h.server) /\ g.viewer = h.viewer /\ g.viewerEnabled = h.viewerEnabled
      BY <1>1, <1>2 DEF AccessGuests
  <2> QED
      BY <1>2, <1>5, <2>2
<1>7. AccessIsSound(a)'
  <2>1. /\ PassIsDue(a) /\ GuestIsInOrder(a) /\ HostIsInOrder(a)
        /\ SshIsAsDeclared(a) /\ PolicyIsSeen(a) /\ ViewerIsSeen(a)
      BY AccessParts
  <2>2. /\ access_pass'[a].at = to
        /\ access_pass'[a].release = access_pass[a].release /\ access_pass'[a].vnc = access_pass[a].vnc
        /\ access_pass'[a].changed = access_pass[a].changed
        /\ UnderWay(a) /\ UnderWay(a)' /\ Lives(a) /\ Lives(a)' /\ (IsCurrent(a)' <=> IsCurrent(a))
        /\ GenerationsAreKnown(a)'
      BY <1>4, <1>5, StepOfPass
  <2>4. PassIsDue(a)'
      BY <1>2, <1>5, <2>1, <2>2 DEF PassIsDue, GrantSteps, WithdrawSteps, ViewerSteps, At,
         AccessPasses
  <2>5. GuestIsInOrder(a)'
      BY ZenonT(60), <1>2, <1>5, <1>6, <2>1, <2>2 DEF GuestIsInOrder, PassIsDue, HostIsInOrder, GrantSteps, WithdrawSteps, ViewerSteps, HasState, Off, NoKey, At
  <2>6. HostIsInOrder(a)'
      BY <1>2, <1>5, <2>1, <2>2 DEF HostIsInOrder, GrantSteps, WithdrawSteps, ViewerSteps, At
  <2>7. SshIsAsDeclared(a)'
      BY <1>2, <1>5, <1>6, <2>1, <2>2 DEF SshIsAsDeclared, CanBeReached, IsWithdrawn, PassIsDue, GuestIsInOrder, HostIsInOrder, GrantSteps, WithdrawSteps, ViewerSteps, HasState, Off, NoKey, At
  <2>8. PolicyIsSeen(a)'
      BY <1>2, <1>5, <1>6, <2>1, <2>2 DEF PolicyIsSeen, GuestIsInOrder, HasState, Off, NoKey, At,
         AccessPasses
  <2>9. ViewerIsSeen(a)'
      BY <1>2, <1>5, <1>6, <2>1, <2>2 DEF ViewerIsSeen, ViewerIsOff, PassIsDue, At
  <2> QED
      BY <2>2, <2>4, <2>5, <2>6, <2>7, <2>8, <2>9 DEF AccessIsSound
<1> QED
    BY <1>5, <1>7 DEF AccessInv

LEMMA UnitGoes ==
    ASSUME AccessInv, NEW a \in Incarnations, RemovesUnit(a)
    PROVE  AccessInv'
<1>1. AccessIsTyped /\ guest[a] \in AccessGuests /\ "remove unit" \in Steps
    BY AccessParts, AccessFields DEF Steps, GrantSteps, WithdrawSteps, ViewerSteps
<1>2. PICK h, g, to : h = guest[a] /\ g = [h EXCEPT !.unit = FALSE] /\ to = "remove state"
    OBVIOUS
<1>4. g \in AccessGuests /\ to \in Steps
    BY <1>1, <1>2 DEF AccessGuests, Steps, GrantSteps, WithdrawSteps, ViewerSteps
<1>5. /\ guest'[a] = g /\ access_pass'[a] = [access_pass[a] EXCEPT !.at = to]
      /\ access_pass[a] \in AccessPasses /\ access_pass[a].at = "remove unit" /\ guest[a].up
      /\ UNCHANGED <<agent, spec, applies, settled, host_key, client, known, config, applied, made, release, cut>>
      /\ AccessIsTyped' /\ NamesAreOwned' /\ NameIsItsOwners'
      /\ \A b \in Incarnations \ {a} : AccessIsSound(b)'
    BY <1>1, <1>4, InGuestMoves, <1>2 DEF RemovesUnit
<1>6. /\ guest'[a].up = guest[a].up /\ guest'[a].key = guest[a].key /\ guest'[a].policy = guest[a].policy
      /\ ~guest'[a].unit /\ guest'[a].enabled = guest[a].enabled /\ guest'[a].authorized = guest[a].authorized
      /\ guest'[a].server = guest[a].server /\ guest'[a].viewer = guest[a].viewer /\ guest'[a].viewerEnabled = guest[a].viewerEnabled
  <2>2. /\ g.up = h.up /\ g.key = h.key /\ g.policy = h.policy
      /\ ~g.unit /\ g.enabled = h.enabled /\ g.authorized = h.authorized
      /\ g.server = h.server /\ g.viewer = h.viewer /\ g.viewerEnabled = h.viewerEnabled
      BY <1>1, <1>2 DEF AccessGuests
  <2> QED
      BY <1>2, <1>5, <2>2
<1>7. AccessIsSound(a)'
  <2>1. /\ PassIsDue(a) /\ GuestIsInOrder(a) /\ HostIsInOrder(a)
        /\ SshIsAsDeclared(a) /\ PolicyIsSeen(a) /\ ViewerIsSeen(a)
      BY AccessParts
  <2>2. /\ access_pass'[a].at = to
        /\ access_pass'[a].release = access_pass[a].release /\ access_pass'[a].vnc = access_pass[a].vnc
        /\ access_pass'[a].changed = access_pass[a].changed
        /\ UnderWay(a) /\ UnderWay(a)' /\ Lives(a) /\ Lives(a)' /\ (IsCurrent(a)' <=> IsCurrent(a))
        /\ GenerationsAreKnown(a)'
      BY <1>4, <1>5, StepOfPass
  <2>4. PassIsDue(a)'
      BY <1>2, <1>5, <2>1, <2>2 DEF PassIsDue, GrantSteps, WithdrawSteps, ViewerSteps, At,
         AccessPasses
  <2>5. GuestIsInOrder(a)'
      BY ZenonT(60), <1>2, <1>5, <1>6, <2>1, <2>2 DEF GuestIsInOrder, PassIsDue, HostIsInOrder, GrantSteps, WithdrawSteps, ViewerSteps, At
  <2>6. HostIsInOrder(a)'
      BY <1>2, <1>5, <2>1, <2>2 DEF HostIsInOrder, GrantSteps, WithdrawSteps, ViewerSteps, At
  <2>7. SshIsAsDeclared(a)'
      BY <1>2, <1>5, <1>6, <2>1, <2>2 DEF SshIsAsDeclared, CanBeReached, IsWithdrawn, PassIsDue, GuestIsInOrder, HostIsInOrder, GrantSteps, WithdrawSteps, ViewerSteps, At
  <2>8. PolicyIsSeen(a)'
      BY <1>2, <1>5, <1>6, <2>1, <2>2 DEF PolicyIsSeen, GuestIsInOrder, At, AccessPasses
  <2>9. ViewerIsSeen(a)'
      BY <1>2, <1>5, <1>6, <2>1, <2>2 DEF ViewerIsSeen, ViewerIsOff, PassIsDue, At
  <2> QED
      BY <2>2, <2>4, <2>5, <2>6, <2>7, <2>8, <2>9 DEF AccessIsSound
<1> QED
    BY <1>5, <1>7 DEF AccessInv

LEMMA StateGoes ==
    ASSUME AccessInv, NEW a \in Incarnations, RemovesState(a)
    PROVE  AccessInv'
<1>1. AccessIsTyped /\ guest[a] \in AccessGuests /\ "remove state" \in Steps
    BY AccessParts, AccessFields DEF Steps, GrantSteps, WithdrawSteps, ViewerSteps
<1>2. PICK h, g, to : h = guest[a] /\ g = [h EXCEPT !.key = NoKey, !.policy = 0, !.authorized = FALSE] /\ to = "host material"
    OBVIOUS
<1>4. g \in AccessGuests /\ to \in Steps
    BY <1>1, <1>2 DEF AccessGuests, Steps, GrantSteps, WithdrawSteps, ViewerSteps, NoKey, Off
<1>5. /\ guest'[a] = g /\ access_pass'[a] = [access_pass[a] EXCEPT !.at = to]
      /\ access_pass[a] \in AccessPasses /\ access_pass[a].at = "remove state" /\ guest[a].up
      /\ UNCHANGED <<agent, spec, applies, settled, host_key, client, known, config, applied, made, release, cut>>
      /\ AccessIsTyped' /\ NamesAreOwned' /\ NameIsItsOwners'
      /\ \A b \in Incarnations \ {a} : AccessIsSound(b)'
    BY <1>1, <1>4, InGuestMoves, <1>2 DEF RemovesState
<1>6. /\ guest'[a].up = guest[a].up /\ guest'[a].key = NoKey /\ guest'[a].policy = 0
      /\ guest'[a].unit = guest[a].unit /\ guest'[a].enabled = guest[a].enabled /\ ~guest'[a].authorized
      /\ guest'[a].server = guest[a].server /\ guest'[a].viewer = guest[a].viewer /\ guest'[a].viewerEnabled = guest[a].viewerEnabled
  <2>2. /\ g.up = h.up /\ g.key = NoKey /\ g.policy = 0
      /\ g.unit = h.unit /\ g.enabled = h.enabled /\ ~g.authorized
      /\ g.server = h.server /\ g.viewer = h.viewer /\ g.viewerEnabled = h.viewerEnabled
      BY <1>1, <1>2 DEF AccessGuests
  <2> QED
      BY <1>2, <1>5, <2>2
<1>7. AccessIsSound(a)'
  <2>2. /\ access_pass'[a].at = to
        /\ access_pass'[a].release = access_pass[a].release /\ access_pass'[a].vnc = access_pass[a].vnc
        /\ access_pass'[a].changed = access_pass[a].changed
        /\ UnderWay(a) /\ UnderWay(a)' /\ Lives(a) /\ Lives(a)' /\ (IsCurrent(a)' <=> IsCurrent(a))
        /\ GenerationsAreKnown(a)'
      BY <1>4, <1>5, StepOfPass
  <2>4. PassIsDue(a)'
      BY <1>2, <1>5, <2>2, AccessParts DEF PassIsDue, GrantSteps, WithdrawSteps, ViewerSteps, At,
         AccessPasses
  <2>5. GuestIsInOrder(a)'
      BY ZenonT(60), <1>2, <1>5, <1>6, <2>2, AccessParts DEF GuestIsInOrder, PassIsDue,
         HostIsInOrder, GrantSteps, WithdrawSteps, ViewerSteps, NoKey, Off, At
  <2>6. HostIsInOrder(a)'
      BY <1>2, <1>5, <2>2, AccessParts DEF HostIsInOrder, GrantSteps, WithdrawSteps, ViewerSteps, At
  <2>7. SshIsAsDeclared(a)'
      BY <1>2, <1>5, <1>6, <2>2, AccessParts DEF SshIsAsDeclared, CanBeReached, IsWithdrawn,
         PassIsDue, GuestIsInOrder, HostIsInOrder, GrantSteps, WithdrawSteps, ViewerSteps, NoKey, Off,
         At
  <2>8. PolicyIsSeen(a)'
      BY <1>2, <1>5, <1>6, <2>2, AccessParts DEF PolicyIsSeen, GuestIsInOrder, NoKey, Off, At,
         AccessPasses
  <2>9. ViewerIsSeen(a)'
      BY <1>2, <1>5, <1>6, <2>2, AccessParts DEF ViewerIsSeen, ViewerIsOff, PassIsDue, At
  <2> QED
      BY <2>2, <2>4, <2>5, <2>6, <2>7, <2>8, <2>9 DEF AccessIsSound
<1> QED
    BY <1>5, <1>7 DEF AccessInv

LEMMA ViewerComes ==
    ASSUME AccessInv, NEW a \in Incarnations, EnablesViewer(a)
    PROVE  AccessInv'
<1>1. AccessIsTyped /\ guest[a] \in AccessGuests /\ "grant" \in Steps
    BY AccessParts, AccessFields DEF Steps, GrantSteps, WithdrawSteps, ViewerSteps
<1>2. PICK h, g, to : h = guest[a] /\ g = [h EXCEPT !.viewerEnabled = TRUE, !.viewer = IF @ = "inactive" THEN "starting" ELSE @] /\ to = "listening"
    OBVIOUS
<1>4. g \in AccessGuests /\ to \in Steps
    BY <1>1, <1>2 DEF AccessGuests, Steps, GrantSteps, WithdrawSteps, ViewerSteps
<1>5. /\ guest'[a] = g /\ access_pass'[a] = [access_pass[a] EXCEPT !.at = to]
      /\ access_pass[a] \in AccessPasses /\ access_pass[a].at = "grant" /\ guest[a].up
      /\ UNCHANGED <<agent, spec, applies, settled, host_key, client, known, config, applied, made, release, cut>>
      /\ AccessIsTyped' /\ NamesAreOwned' /\ NameIsItsOwners'
      /\ \A b \in Incarnations \ {a} : AccessIsSound(b)'
    BY <1>1, <1>4, InGuestMoves, <1>2 DEF EnablesViewer
<1>6. /\ guest'[a].up = guest[a].up /\ guest'[a].key = guest[a].key /\ guest'[a].policy = guest[a].policy
      /\ guest'[a].unit = guest[a].unit /\ guest'[a].enabled = guest[a].enabled /\ guest'[a].authorized = guest[a].authorized
      /\ guest'[a].server = guest[a].server /\ guest'[a].viewer = (IF guest[a].viewer = "inactive" THEN "starting" ELSE guest[a].viewer) /\ guest'[a].viewerEnabled
  <2>2. /\ g.up = h.up /\ g.key = h.key /\ g.policy = h.policy
      /\ g.unit = h.unit /\ g.enabled = h.enabled /\ g.authorized = h.authorized
      /\ g.server = h.server /\ g.viewer = (IF h.viewer = "inactive" THEN "starting" ELSE h.viewer) /\ g.viewerEnabled
      BY <1>1, <1>2 DEF AccessGuests
  <2> QED
      BY <1>2, <1>5, <2>2
<1>7. AccessIsSound(a)'
  <2>1. /\ PassIsDue(a) /\ GuestIsInOrder(a) /\ HostIsInOrder(a)
        /\ SshIsAsDeclared(a) /\ PolicyIsSeen(a) /\ ViewerIsSeen(a)
      BY AccessParts
  <2>2. /\ access_pass'[a].at = to
        /\ access_pass'[a].release = access_pass[a].release /\ access_pass'[a].vnc = access_pass[a].vnc
        /\ access_pass'[a].changed = access_pass[a].changed
        /\ UnderWay(a) /\ UnderWay(a)' /\ Lives(a) /\ Lives(a)' /\ (IsCurrent(a)' <=> IsCurrent(a))
        /\ GenerationsAreKnown(a)'
      BY <1>4, <1>5, StepOfPass
  <2>4. PassIsDue(a)'
      BY <1>2, <1>5, <2>1, <2>2 DEF PassIsDue, GrantSteps, WithdrawSteps, ViewerSteps, At,
         AccessPasses
  <2>5. GuestIsInOrder(a)'
      BY ZenonT(60), <1>2, <1>5, <1>6, <2>1, <2>2 DEF GuestIsInOrder, PassIsDue, HostIsInOrder, GrantSteps, WithdrawSteps, ViewerSteps, At
  <2>6. HostIsInOrder(a)'
      BY <1>2, <1>5, <2>1, <2>2 DEF HostIsInOrder, GrantSteps, WithdrawSteps, ViewerSteps, At
  <2>7. SshIsAsDeclared(a)'
      BY <1>2, <1>5, <1>6, <2>1, <2>2 DEF SshIsAsDeclared, CanBeReached, IsWithdrawn, PassIsDue, GuestIsInOrder, HostIsInOrder, GrantSteps, WithdrawSteps, ViewerSteps, At
  <2>8. PolicyIsSeen(a)'
      BY <1>2, <1>5, <1>6, <2>1, <2>2 DEF PolicyIsSeen, GuestIsInOrder, At, AccessPasses
  <2>9. ViewerIsSeen(a)'
      BY <1>2, <1>5, <1>6, <2>1, <2>2 DEF ViewerIsSeen, ViewerIsOff, PassIsDue, At
  <2> QED
      BY <2>2, <2>4, <2>5, <2>6, <2>7, <2>8, <2>9 DEF AccessIsSound
<1> QED
    BY <1>5, <1>7 DEF AccessInv

LEMMA ViewerGoes ==
    ASSUME AccessInv, NEW a \in Incarnations, DisablesViewer(a)
    PROVE  AccessInv'
<1>1. AccessIsTyped /\ guest[a] \in AccessGuests /\ "withdraw" \in Steps
    BY AccessParts, AccessFields DEF Steps, GrantSteps, WithdrawSteps, ViewerSteps
<1>2. PICK h, g, to : h = guest[a] /\ g = [h EXCEPT !.viewerEnabled = FALSE, !.viewer = "inactive"] /\ to = "inactive"
    OBVIOUS
<1>4. g \in AccessGuests /\ to \in Steps
    BY <1>1, <1>2 DEF AccessGuests, Steps, GrantSteps, WithdrawSteps, ViewerSteps
<1>5. /\ guest'[a] = g /\ access_pass'[a] = [access_pass[a] EXCEPT !.at = to]
      /\ access_pass[a] \in AccessPasses /\ access_pass[a].at = "withdraw" /\ guest[a].up
      /\ UNCHANGED <<agent, spec, applies, settled, host_key, client, known, config, applied, made, release, cut>>
      /\ AccessIsTyped' /\ NamesAreOwned' /\ NameIsItsOwners'
      /\ \A b \in Incarnations \ {a} : AccessIsSound(b)'
    BY <1>1, <1>4, InGuestMoves, <1>2 DEF DisablesViewer
<1>6. /\ guest'[a].up = guest[a].up /\ guest'[a].key = guest[a].key /\ guest'[a].policy = guest[a].policy
      /\ guest'[a].unit = guest[a].unit /\ guest'[a].enabled = guest[a].enabled /\ guest'[a].authorized = guest[a].authorized
      /\ guest'[a].server = guest[a].server /\ guest'[a].viewer = "inactive" /\ ~guest'[a].viewerEnabled
  <2>2. /\ g.up = h.up /\ g.key = h.key /\ g.policy = h.policy
      /\ g.unit = h.unit /\ g.enabled = h.enabled /\ g.authorized = h.authorized
      /\ g.server = h.server /\ g.viewer = "inactive" /\ ~g.viewerEnabled
      BY <1>1, <1>2 DEF AccessGuests
  <2> QED
      BY <1>2, <1>5, <2>2
<1>7. AccessIsSound(a)'
  <2>1. /\ PassIsDue(a) /\ GuestIsInOrder(a) /\ HostIsInOrder(a)
        /\ SshIsAsDeclared(a) /\ PolicyIsSeen(a) /\ ViewerIsSeen(a)
      BY AccessParts
  <2>2. /\ access_pass'[a].at = to
        /\ access_pass'[a].release = access_pass[a].release /\ access_pass'[a].vnc = access_pass[a].vnc
        /\ access_pass'[a].changed = access_pass[a].changed
        /\ UnderWay(a) /\ UnderWay(a)' /\ Lives(a) /\ Lives(a)' /\ (IsCurrent(a)' <=> IsCurrent(a))
        /\ GenerationsAreKnown(a)'
      BY <1>4, <1>5, StepOfPass
  <2>4. PassIsDue(a)'
      BY <1>2, <1>5, <2>1, <2>2 DEF PassIsDue, GrantSteps, WithdrawSteps, ViewerSteps, At,
         AccessPasses
  <2>5. GuestIsInOrder(a)'
      BY ZenonT(60), <1>2, <1>5, <1>6, <2>1, <2>2 DEF GuestIsInOrder, PassIsDue, HostIsInOrder, GrantSteps, WithdrawSteps, ViewerSteps, At
  <2>6. HostIsInOrder(a)'
      BY <1>2, <1>5, <2>1, <2>2 DEF HostIsInOrder, GrantSteps, WithdrawSteps, ViewerSteps, At
  <2>7. SshIsAsDeclared(a)'
      BY <1>2, <1>5, <1>6, <2>1, <2>2 DEF SshIsAsDeclared, CanBeReached, IsWithdrawn, PassIsDue, GuestIsInOrder, HostIsInOrder, GrantSteps, WithdrawSteps, ViewerSteps, At
  <2>8. PolicyIsSeen(a)'
      BY <1>2, <1>5, <1>6, <2>1, <2>2 DEF PolicyIsSeen, GuestIsInOrder, At, AccessPasses
  <2>9. ViewerIsSeen(a)'
      BY <1>2, <1>5, <1>6, <2>1, <2>2 DEF ViewerIsSeen, ViewerIsOff, PassIsDue, At
  <2> QED
      BY <2>2, <2>4, <2>5, <2>6, <2>7, <2>8, <2>9 DEF AccessIsSound
<1> QED
    BY <1>5, <1>7 DEF AccessInv

LEMMA ServerFilesKeep ==
    ASSUME AccessInv, NEW a \in Incarnations, WritesServerFiles(a)
    PROVE  AccessInv'
<1>1. AccessIsTyped /\ guest[a] \in AccessGuests /\ host_key[a] \in Nat /\ release \in Nat /\ release # 0
    BY AccessParts, AccessFields DEF AccessIsTyped
<1>2. access_pass[a] \in AccessPasses /\ access_pass[a].at = "server key" /\ guest[a].up
    BY <1>1, PassFields DEF WritesServerFiles, PassAt
<1>3. PICK h, x, g, q, p : /\ h = guest[a] /\ g = [h EXCEPT !.key = host_key[a]]
                        /\ q = access_pass[a] /\ x = (h.key # host_key[a]) /\ p = [q EXCEPT !.at = "policy", !.changed = x]
    OBVIOUS
<1>4. x \in BOOLEAN /\ h \in AccessGuests /\ q \in AccessPasses
    BY <1>1, <1>2, <1>3 DEF AccessPasses
<1>6. g \in AccessGuests
    BY <1>1, <1>3, <1>4 DEF AccessGuests
<1>7. p \in AccessPasses /\ p.at = "policy" /\ p.changed = x /\ p.release = q.release /\ p.vnc = q.vnc /\ p.generation = q.generation
    BY <1>3, <1>4 DEF AccessPasses, GrantSteps, WithdrawSteps, ViewerSteps
<1>8. guest' = [guest EXCEPT ![a] = g] /\ access_pass' = [access_pass EXCEPT ![a] = p]
    BY <1>3 DEF WritesServerFiles
<1>9. UNCHANGED <<agent, spec, applies, settled, host_key, client, known, config, applied, made, release, cut>>
    BY DEF WritesServerFiles, userVars, hostVars
<1>10. /\ guest'[a] = g /\ access_pass'[a] = p /\ AccessIsTyped' /\ NamesAreOwned' /\ NameIsItsOwners'
       /\ \A b \in Incarnations \ {a} : AccessIsSound(b)'
    BY <1>6, <1>7, <1>8, <1>9, GuestMoves
<1>11. AccessIsSound(a)'
  <2>1. /\ PassIsDue(a) /\ GuestIsInOrder(a) /\ HostIsInOrder(a)
        /\ SshIsAsDeclared(a) /\ PolicyIsSeen(a) /\ ViewerIsSeen(a)
      BY AccessParts
  <2>2. /\ UnderWay(a) /\ UnderWay(a)' /\ Lives(a) /\ Lives(a)' /\ (IsCurrent(a)' <=> IsCurrent(a))
        /\ GenerationsAreKnown(a)'
    <3>4. access_pass'[a].at = "policy" /\ access_pass'[a].generation = access_pass[a].generation
        BY <1>3, <1>7, <1>10
    <3> QED
        BY <1>3, <1>7, <1>9, <1>10, <2>1, AccessParts, <1>2, <3>4 DEF GenerationsAreKnown,
           PassIsDue, UnderWay, IsCurrent, Lives
  <2>3. /\ guest'[a].up = guest[a].up /\ guest'[a].key = host_key[a] /\ guest'[a].policy = guest[a].policy
      /\ guest'[a].unit = guest[a].unit /\ guest'[a].enabled = guest[a].enabled /\ guest'[a].authorized = guest[a].authorized
      /\ guest'[a].server = guest[a].server /\ guest'[a].viewer = guest[a].viewer /\ guest'[a].viewerEnabled = guest[a].viewerEnabled
      BY <1>3, <1>10, <1>4 DEF AccessGuests
  <2>10. /\ access_pass'[a].at = "policy" /\ access_pass'[a].release = access_pass[a].release
         /\ access_pass'[a].vnc = access_pass[a].vnc /\ access_pass'[a].changed = (guest[a].key # host_key[a])
      BY <1>3, <1>7, <1>10
  <2>11. access_pass[a].changed \in BOOLEAN
      BY <1>2 DEF AccessPasses
  <2>4. PassIsDue(a)'
      BY <1>1, <1>2, <1>9, <2>1, <2>2, <2>3, <2>10, <2>11 DEF PassIsDue, GrantSteps, WithdrawSteps, ViewerSteps, At
  <2>5. GuestIsInOrder(a)'
      BY ZenonT(60), <1>1, <1>2, <1>9, <2>1, <2>2, <2>3, <2>10, <2>11 DEF GuestIsInOrder, PassIsDue, HostIsInOrder, GrantSteps, WithdrawSteps, ViewerSteps, At, NoKey
  <2>6. HostIsInOrder(a)'
      BY <1>1, <1>2, <1>9, <2>1, <2>2, <2>3, <2>10, <2>11 DEF HostIsInOrder, PassIsDue, GrantSteps, WithdrawSteps, ViewerSteps, At, NoKey
  <2>7. SshIsAsDeclared(a)'
      BY <1>1, <1>2, <1>9, <2>1, <2>2, <2>3, <2>10, <2>11 DEF SshIsAsDeclared, CanBeReached, IsWithdrawn, PassIsDue, GuestIsInOrder, HostIsInOrder, GrantSteps, WithdrawSteps, ViewerSteps, At, NoKey
  <2>8. PolicyIsSeen(a)'
      BY <1>1, <1>2, <1>9, <2>1, <2>2, <2>3, <2>10, <2>11 DEF PolicyIsSeen, GuestIsInOrder, At, NoKey
  <2>9. ViewerIsSeen(a)'
      BY <1>1, <1>2, <1>9, <2>1, <2>2, <2>3, <2>10, <2>11 DEF ViewerIsSeen, ViewerIsOff, PassIsDue, At
  <2> QED
      BY <2>2, <2>4, <2>5, <2>6, <2>7, <2>8, <2>9 DEF AccessIsSound
<1> QED
    BY <1>10, <1>11 DEF AccessInv

LEMMA PolicyKeeps ==
    ASSUME AccessInv, NEW a \in Incarnations, WritesPolicy(a)
    PROVE  AccessInv'
<1>1. AccessIsTyped /\ guest[a] \in AccessGuests /\ host_key[a] \in Nat /\ release \in Nat /\ release # 0
    BY AccessParts, AccessFields DEF AccessIsTyped
<1>2. access_pass[a] \in AccessPasses /\ access_pass[a].at = "policy" /\ guest[a].up
    BY <1>1, PassFields DEF WritesPolicy, PassAt
<1>3. PICK h, x, g, q, p : /\ h = guest[a] /\ g = [h EXCEPT !.policy = release, !.unit = TRUE]
                        /\ q = access_pass[a] /\ x = (q.changed \/ h.policy # release \/ ~h.unit) /\ p = [q EXCEPT !.at = "authorize", !.changed = x]
    OBVIOUS
<1>4. x \in BOOLEAN /\ h \in AccessGuests /\ q \in AccessPasses
    BY <1>1, <1>2, <1>3 DEF AccessPasses
<1>6. g \in AccessGuests
    BY <1>1, <1>3, <1>4 DEF AccessGuests
<1>7. p \in AccessPasses /\ p.at = "authorize" /\ p.changed = x /\ p.release = q.release /\ p.vnc = q.vnc /\ p.generation = q.generation
    BY <1>3, <1>4 DEF AccessPasses, GrantSteps, WithdrawSteps, ViewerSteps
<1>8. guest' = [guest EXCEPT ![a] = g] /\ access_pass' = [access_pass EXCEPT ![a] = p]
    BY <1>3 DEF WritesPolicy
<1>9. UNCHANGED <<agent, spec, applies, settled, host_key, client, known, config, applied, made, release, cut>>
    BY DEF WritesPolicy, userVars, hostVars
<1>10. /\ guest'[a] = g /\ access_pass'[a] = p /\ AccessIsTyped' /\ NamesAreOwned' /\ NameIsItsOwners'
       /\ \A b \in Incarnations \ {a} : AccessIsSound(b)'
    BY <1>6, <1>7, <1>8, <1>9, GuestMoves
<1>11. AccessIsSound(a)'
  <2>1. /\ PassIsDue(a) /\ GuestIsInOrder(a) /\ HostIsInOrder(a)
        /\ SshIsAsDeclared(a) /\ PolicyIsSeen(a) /\ ViewerIsSeen(a)
      BY AccessParts
  <2>2. /\ UnderWay(a) /\ UnderWay(a)' /\ Lives(a) /\ Lives(a)' /\ (IsCurrent(a)' <=> IsCurrent(a))
        /\ GenerationsAreKnown(a)'
      BY <1>3, <1>7, <1>10, <1>2, <1>9, AccessParts DEF UnderWay, IsCurrent, Lives,
         GenerationsAreKnown, PassIsDue
  <2>3. /\ guest'[a].up = guest[a].up /\ guest'[a].key = guest[a].key /\ guest'[a].policy = release
      /\ guest'[a].unit /\ guest'[a].enabled = guest[a].enabled /\ guest'[a].authorized = guest[a].authorized
      /\ guest'[a].server = guest[a].server /\ guest'[a].viewer = guest[a].viewer /\ guest'[a].viewerEnabled = guest[a].viewerEnabled
      BY <1>3, <1>10, <1>4 DEF AccessGuests
  <2>10. /\ access_pass'[a].at = "authorize" /\ access_pass'[a].release = access_pass[a].release
         /\ access_pass'[a].vnc = access_pass[a].vnc /\ access_pass'[a].changed = (access_pass[a].changed \/ guest[a].policy # release \/ ~guest[a].unit)
      BY <1>3, <1>7, <1>10
  <2>11. access_pass[a].changed \in BOOLEAN
      BY <1>2 DEF AccessPasses
  <2>4. PassIsDue(a)'
      BY <1>1, <1>2, <1>9, <2>1, <2>2, <2>3, <2>10, <2>11 DEF PassIsDue, GrantSteps, WithdrawSteps, ViewerSteps, At
  <2>5. GuestIsInOrder(a)'
      BY ZenonT(60), <1>1, <1>2, <1>9, <2>1, <2>2, <2>3, <2>10, <2>11 DEF GuestIsInOrder, PassIsDue, HostIsInOrder, GrantSteps, WithdrawSteps, ViewerSteps, At, NoKey
  <2>6. HostIsInOrder(a)'
      BY <1>1, <1>2, <1>9, <2>1, <2>2, <2>3, <2>10, <2>11 DEF HostIsInOrder, PassIsDue, GrantSteps, WithdrawSteps, ViewerSteps, At, NoKey
  <2>7. SshIsAsDeclared(a)'
      BY <1>1, <1>2, <1>9, <2>1, <2>2, <2>3, <2>10, <2>11 DEF SshIsAsDeclared, CanBeReached, IsWithdrawn, PassIsDue, GuestIsInOrder, HostIsInOrder, GrantSteps, WithdrawSteps, ViewerSteps, At, NoKey
  <2>8. PolicyIsSeen(a)'
      BY <1>1, <1>2, <1>9, <2>1, <2>2, <2>3, <2>10, <2>11 DEF PolicyIsSeen, GuestIsInOrder, At, NoKey
  <2>9. ViewerIsSeen(a)'
      BY <1>1, <1>2, <1>9, <2>1, <2>2, <2>3, <2>10, <2>11 DEF ViewerIsSeen, ViewerIsOff, PassIsDue, At
  <2> QED
      BY <2>2, <2>4, <2>5, <2>6, <2>7, <2>8, <2>9 DEF AccessIsSound
<1> QED
    BY <1>10, <1>11 DEF AccessInv

LEMMA GuestStopsKeeps ==
    ASSUME AccessInv, NEW a \in Incarnations, GuestStops(a)
    PROVE  AccessInv'
<1>1. AccessIsTyped /\ guest[a] \in AccessGuests /\ access_pass[a] \in AccessPasses \cup {NoAccessPass}
    BY AccessParts, AccessFields
<1>2. guest[a].up
    BY DEF GuestStops
<1>3. PICK h, g, p : h = guest[a] /\ g = [h EXCEPT !.up = FALSE, !.server = Off, !.viewer = "inactive"] /\ p = access_pass[a]
    OBVIOUS
<1>4. /\ ~g.up /\ g.key = h.key /\ g.policy = h.policy
      /\ g.unit = h.unit /\ g.enabled = h.enabled /\ g.authorized = h.authorized
      /\ g.server = Off /\ g.viewer = "inactive" /\ g.viewerEnabled = h.viewerEnabled
    BY <1>1, <1>3 DEF AccessGuests
<1>5. g \in AccessGuests
    BY <1>1, <1>3 DEF AccessGuests, Off, NoKey
<1>6. guest' = [guest EXCEPT ![a] = g] /\ access_pass' = [access_pass EXCEPT ![a] = p]
    BY <1>1, <1>3 DEF GuestStops, AccessIsTyped
<1>7. UNCHANGED <<agent, spec, applies, settled, host_key, client, known, config, applied, made, release, cut>>
    BY DEF GuestStops, userVars, hostVars
<1>10. access_pass' = access_pass
    BY DEF GuestStops
<1>9. AccessIsSound(a)'
  <2>1. /\ PassIsDue(a) /\ GuestIsInOrder(a) /\ HostIsInOrder(a)
        /\ SshIsAsDeclared(a) /\ PolicyIsSeen(a) /\ ViewerIsSeen(a)
      BY AccessParts
  <2>2. /\ (UnderWay(a)' <=> UnderWay(a)) /\ (Lives(a)' <=> Lives(a)) /\ (IsCurrent(a)' <=> IsCurrent(a))
        /\ GenerationsAreKnown(a)'
      BY AccessParts, <1>7, <1>10 DEF UnderWay, Lives, IsCurrent, GenerationsAreKnown
  <2>3. /\ ~guest'[a].up /\ guest'[a].key = guest[a].key /\ guest'[a].policy = guest[a].policy
      /\ guest'[a].unit = guest[a].unit /\ guest'[a].enabled = guest[a].enabled /\ guest'[a].authorized = guest[a].authorized
      /\ guest'[a].server = Off /\ guest'[a].viewer = "inactive" /\ guest'[a].viewerEnabled = guest[a].viewerEnabled
      BY <1>3, <1>4, <1>5, <1>6, <1>7, GuestMoves, <1>1
  <2>10. NoGuest.up = FALSE /\ guest[a] # NoGuest
      BY <1>2 DEF NoGuest, NewGuest
  <2>4. PassIsDue(a)'
      BY <1>2, <1>7, <1>10, <2>1, <2>2, <2>3, <2>10 DEF PassIsDue, GrantSteps, WithdrawSteps, ViewerSteps, At
  <2>5. GuestIsInOrder(a)'
      BY ZenonT(60), <1>2, <1>7, <1>10, <2>1, <2>2, <2>3, <2>10 DEF GuestIsInOrder, PassIsDue, HostIsInOrder, GrantSteps, WithdrawSteps, ViewerSteps, At
  <2>6. HostIsInOrder(a)'
      BY <1>2, <1>7, <1>10, <2>1, <2>2, <2>3, <2>10 DEF HostIsInOrder, PassIsDue, GrantSteps, WithdrawSteps, ViewerSteps, At
  <2>7. SshIsAsDeclared(a)'
      BY <1>2, <1>7, <1>10, <2>1, <2>2, <2>3, <2>10 DEF SshIsAsDeclared, CanBeReached, IsWithdrawn, PassIsDue, GuestIsInOrder, HostIsInOrder, GrantSteps, WithdrawSteps, ViewerSteps, At
  <2>8. PolicyIsSeen(a)'
      BY <1>2, <1>7, <1>10, <2>1, <2>2, <2>3, <2>10 DEF PolicyIsSeen, GuestIsInOrder, At
  <2>9. ViewerIsSeen(a)'
      BY <1>2, <1>7, <1>10, <2>1, <2>2, <2>3, <2>10 DEF ViewerIsSeen, ViewerIsOff, PassIsDue, At
  <2> QED
      BY <2>2, <2>4, <2>5, <2>6, <2>7, <2>8, <2>9 DEF AccessIsSound
<1> QED
    BY <1>9, <1>5, <1>6, <1>7, GuestMoves, <1>1, <1>3 DEF AccessInv

LEMMA ListeningKeeps ==
    ASSUME AccessInv, NEW a \in Incarnations, ViewerListens(a)
    PROVE  AccessInv'
<1>1. AccessIsTyped /\ guest[a] \in AccessGuests /\ access_pass[a] \in AccessPasses \cup {NoAccessPass}
    BY AccessParts, AccessFields
<1>2. guest[a].viewer = "starting" /\ guest[a].up
    BY AccessParts DEF ViewerListens, GuestIsInOrder
<1>3. PICK h, g, p : h = guest[a] /\ g = [h EXCEPT !.viewer = "listening"] /\ p = access_pass[a]
    OBVIOUS
<1>4. /\ g.up = h.up /\ g.key = h.key /\ g.policy = h.policy
      /\ g.unit = h.unit /\ g.enabled = h.enabled /\ g.authorized = h.authorized
      /\ g.server = h.server /\ g.viewer = "listening" /\ g.viewerEnabled = h.viewerEnabled
    BY <1>1, <1>3 DEF AccessGuests
<1>5. g \in AccessGuests
    BY <1>1, <1>3 DEF AccessGuests, Off, NoKey
<1>6. guest' = [guest EXCEPT ![a] = g] /\ access_pass' = [access_pass EXCEPT ![a] = p]
    BY <1>1, <1>3 DEF ViewerListens, AccessIsTyped
<1>7. UNCHANGED <<agent, spec, applies, settled, host_key, client, known, config, applied, made, release, cut>>
    BY DEF ViewerListens, userVars, hostVars
<1>10. access_pass' = access_pass
    BY DEF ViewerListens
<1>9. AccessIsSound(a)'
  <2>1. /\ PassIsDue(a) /\ GuestIsInOrder(a) /\ HostIsInOrder(a)
        /\ SshIsAsDeclared(a) /\ PolicyIsSeen(a) /\ ViewerIsSeen(a)
      BY AccessParts
  <2>2. /\ (UnderWay(a)' <=> UnderWay(a)) /\ (Lives(a)' <=> Lives(a)) /\ (IsCurrent(a)' <=> IsCurrent(a))
        /\ GenerationsAreKnown(a)'
      BY AccessParts, <1>7, <1>10 DEF UnderWay, Lives, IsCurrent, GenerationsAreKnown
  <2>3. /\ guest'[a].up = guest[a].up /\ guest'[a].key = guest[a].key /\ guest'[a].policy = guest[a].policy
      /\ guest'[a].unit = guest[a].unit /\ guest'[a].enabled = guest[a].enabled /\ guest'[a].authorized = guest[a].authorized
      /\ guest'[a].server = guest[a].server /\ guest'[a].viewer = "listening" /\ guest'[a].viewerEnabled = guest[a].viewerEnabled
      BY <1>3, <1>4, <1>5, <1>6, <1>7, GuestMoves, <1>1
  <2>10. NoGuest.up = FALSE /\ guest[a] # NoGuest
      BY <1>2 DEF NoGuest, NewGuest
  <2>4. PassIsDue(a)'
      BY <1>2, <1>7, <1>10, <2>1, <2>2, <2>3, <2>10 DEF PassIsDue, GrantSteps, WithdrawSteps, ViewerSteps, At
  <2>5. GuestIsInOrder(a)'
      BY ZenonT(60), <1>2, <1>7, <1>10, <2>1, <2>2, <2>3, <2>10 DEF GuestIsInOrder, PassIsDue, HostIsInOrder, GrantSteps, WithdrawSteps, ViewerSteps, At
  <2>6. HostIsInOrder(a)'
      BY <1>2, <1>7, <1>10, <2>1, <2>2, <2>3, <2>10 DEF HostIsInOrder, PassIsDue, GrantSteps, WithdrawSteps, ViewerSteps, At
  <2>7. SshIsAsDeclared(a)'
      BY <1>2, <1>7, <1>10, <2>1, <2>2, <2>3, <2>10 DEF SshIsAsDeclared, CanBeReached, IsWithdrawn, PassIsDue, GuestIsInOrder, HostIsInOrder, GrantSteps, WithdrawSteps, ViewerSteps, At
  <2>8. PolicyIsSeen(a)'
      BY <1>2, <1>7, <1>10, <2>1, <2>2, <2>3, <2>10 DEF PolicyIsSeen, GuestIsInOrder, At
  <2>9. ViewerIsSeen(a)'
      BY <1>2, <1>7, <1>10, <2>1, <2>2, <2>3, <2>10 DEF ViewerIsSeen, ViewerIsOff, PassIsDue, At
  <2> QED
      BY <2>2, <2>4, <2>5, <2>6, <2>7, <2>8, <2>9 DEF AccessIsSound
<1> QED
    BY <1>9, <1>5, <1>6, <1>7, GuestMoves, <1>1, <1>3 DEF AccessInv

(* The sandbox boots before the pass looks at it: what systemd starts then *)
(* is what was enabled.                                                    *)
LEMMA BootKeeps ==
    ASSUME AccessInv, NEW a \in Incarnations, NEW h \in AccessGuests, h = guest[a], ~h.up
    PROVE  /\ BootedGuest(h) \in AccessGuests /\ BootedGuest(h).up
           /\ BootedGuest(h).key = h.key /\ BootedGuest(h).policy = h.policy /\ BootedGuest(h).unit = h.unit
           /\ BootedGuest(h).enabled = h.enabled /\ BootedGuest(h).authorized = h.authorized
           /\ BootedGuest(h).viewerEnabled = h.viewerEnabled
           /\ BootedGuest(h).server \in {Off, [key |-> h.key, policy |-> h.policy]}
           /\ BootedGuest(h).server # Off => h.enabled /\ h.unit /\ h.key # NoKey
           /\ h.viewerEnabled \/ BootedGuest(h).viewer = "inactive"
BY DEF BootedGuest, Served, AccessGuests, Off, NoKey

LEMMA BeginsKeeps ==
    ASSUME AccessInv, NEW a \in Incarnations, BeginsAccess(a)
    PROVE  AccessInv'
<1>2. access_pass[a].at = "idle" /\ agent[a] \in {"active", "deleting"}
    BY DEF BeginsAccess, NoAccessPass
<1>3. PICK h, g, p :
        /\ h = guest[a] /\ g = (IF agent[a] = "deleting" \/ h.up THEN h ELSE BootedGuest(h))
        /\ p = [at |-> IF agent[a] = "deleting" THEN "release" ELSE IF spec[a].ssh THEN "verify" ELSE "disable",
                release |-> agent[a] = "deleting",
                vnc |-> spec[a].vnc, generation |-> spec[a].generation, changed |-> FALSE]
    OBVIOUS
<1>4. /\ p.at = (IF agent[a] = "deleting" THEN "release" ELSE IF spec[a].ssh THEN "verify" ELSE "disable")
      /\ p.release = (agent[a] = "deleting") /\ p.vnc = spec[a].vnc /\ p.generation = spec[a].generation
    BY <1>3
<1>5. p \in AccessPasses
    BY <1>3, AccessParts, AccessFields DEF AccessPasses, GrantSteps, WithdrawSteps, ViewerSteps
<1>6. g \in AccessGuests
    BY <1>3, BootKeeps, AccessParts, AccessFields
<1>7. guest' = [guest EXCEPT ![a] = g] /\ access_pass' = [access_pass EXCEPT ![a] = p]
    BY <1>3 DEF BeginsAccess
<1>8. UNCHANGED <<agent, spec, applies, settled, host_key, client, known, config, applied, made, release, cut>>
    BY DEF BeginsAccess, userVars, hostVars
<1>9. /\ guest'[a] = g /\ access_pass'[a] = p
      /\ AccessIsTyped' /\ NamesAreOwned' /\ NameIsItsOwners'
      /\ \A b \in Incarnations \ {a} : AccessIsSound(b)'
    BY <1>5, <1>6, <1>7, <1>8, GuestMoves
<1>11. AccessIsSound(a)'
  <2>1. /\ PassIsDue(a) /\ GuestIsInOrder(a) /\ HostIsInOrder(a)
        /\ SshIsAsDeclared(a) /\ PolicyIsSeen(a) /\ ViewerIsSeen(a)
      BY AccessParts
  <2>2. /\ ~UnderWay(a) /\ UnderWay(a)' /\ Lives(a) /\ Lives(a)' /\ (IsCurrent(a)' <=> agent[a] = "active")
        /\ GenerationsAreKnown(a)'
      BY <1>2, <1>4, <1>8, <1>9, AccessParts DEF UnderWay, Lives, IsCurrent, GenerationsAreKnown
  <2>11. /\ guest'[a].key = guest[a].key /\ guest'[a].policy = guest[a].policy /\ guest'[a].unit = guest[a].unit
         /\ guest'[a].enabled = guest[a].enabled /\ guest'[a].authorized = guest[a].authorized
         /\ guest'[a].viewerEnabled = guest[a].viewerEnabled
         /\ guest'[a] = guest[a] \/ (guest'[a].up /\ agent[a] = "active")
         /\ guest'[a].server = Off \/ guest'[a].server = guest[a].server
              \/ (guest'[a].server.key = guest[a].key /\ guest'[a].server.policy = guest[a].policy)
         /\ guest'[a].server # Off => (guest[a].enabled /\ guest[a].unit /\ guest[a].key # NoKey) \/ guest'[a] = guest[a]
         /\ guest'[a].viewer = guest[a].viewer \/ guest[a].viewerEnabled \/ guest'[a].viewer = "inactive"
      BY <1>3, <1>9, <1>2, BootKeeps, AccessParts, AccessFields
  <2>4. PassIsDue(a)'
      BY <1>2, <1>8, <2>1, <2>2, <2>11, <1>4, <1>9 DEF PassIsDue, GrantSteps, WithdrawSteps,
         ViewerSteps, At, GuestIsInOrder
  <2>5. GuestIsInOrder(a)'
      BY ZenonT(60), <1>2, <1>8, <2>1, <2>2, <2>11, <1>4, <1>9 DEF GuestIsInOrder, PassIsDue,
         HostIsInOrder, GrantSteps, WithdrawSteps, ViewerSteps, At, NoKey
  <2>6. HostIsInOrder(a)'
      BY <1>2, <1>8, <2>1, <2>2, <2>11, <1>4, <1>9 DEF HostIsInOrder, PassIsDue, GrantSteps,
         WithdrawSteps, ViewerSteps, At, NoKey, GuestIsInOrder
  <2>7. SshIsAsDeclared(a)'
      BY <1>2, <1>8, <2>1, <2>2, <2>11, <1>4, <1>9 DEF SshIsAsDeclared, CanBeReached, IsWithdrawn,
         PassIsDue, GuestIsInOrder, HostIsInOrder, GrantSteps, WithdrawSteps, ViewerSteps, At, NoKey
  <2>8. PolicyIsSeen(a)'
      BY <1>2, <1>8, <2>1, <2>2, <2>11, <1>4, <1>9 DEF PolicyIsSeen, GuestIsInOrder, At, NoKey
  <2>9. ViewerIsSeen(a)'
      BY <1>2, <1>8, <2>1, <2>2, <2>11, <1>4, <1>9 DEF ViewerIsSeen, ViewerIsOff, PassIsDue, At,
         GuestIsInOrder
  <2> QED
      BY <2>2, <2>4, <2>5, <2>6, <2>7, <2>8, <2>9 DEF AccessIsSound
<1> QED
    BY <1>9, <1>11 DEF AccessInv

LEMMA ReleaseKeeps ==
    ASSUME AccessInv, NEW a \in Incarnations, ReleasesSandbox(a)
    PROVE  AccessInv'
<1>2. access_pass[a] \in AccessPasses /\ access_pass[a].at = "release"
    BY PassFields, AccessParts DEF ReleasesSandbox, PassAt
<1>3. PICK g, q, p : g = NoGuest /\ q = access_pass[a] /\ p = [q EXCEPT !.at = "host material"]
    OBVIOUS
<1>4. /\ ~g.up /\ g.key = NoKey /\ ~g.unit /\ ~g.enabled /\ g.server = Off /\ g.viewer = "inactive" /\ ~g.viewerEnabled
      /\ g \in AccessGuests
    BY <1>3 DEF NoGuest, NewGuest, AccessGuests, Off, NoKey
<1>5. p \in AccessPasses
    BY <1>2, <1>3 DEF AccessPasses, GrantSteps, WithdrawSteps, ViewerSteps
<1>7. UNCHANGED <<agent, spec, applies, settled, host_key, client, known, config, applied, made, release, cut>>
    BY DEF ReleasesSandbox, userVars, hostVars
<1>8. /\ guest'[a] = g /\ access_pass'[a] = p
      /\ AccessIsTyped' /\ NamesAreOwned' /\ NameIsItsOwners'
      /\ \A b \in Incarnations \ {a} : AccessIsSound(b)'
    BY <1>4, <1>5, <1>7, GuestMoves, <1>3 DEF ReleasesSandbox, To
<1>9. AccessIsSound(a)'
  <2>2. /\ access_pass'[a].at = "host material"
        /\ access_pass'[a].release = access_pass[a].release /\ access_pass'[a].vnc = access_pass[a].vnc
        /\ UnderWay(a) /\ UnderWay(a)' /\ Lives(a) /\ Lives(a)' /\ (IsCurrent(a)' <=> IsCurrent(a))
        /\ GenerationsAreKnown(a)'
      BY <1>3, <1>8, <1>2, <1>7, StepOfPass DEF Steps, WithdrawSteps
  <2>10. access_pass[a].release /\ agent[a] = "deleting" /\ ~IsCurrent(a) /\ ~settled[a]
      BY <1>2, <2>2, AccessParts DEF PassIsDue, IsCurrent, At
  <2>4. PassIsDue(a)'
      BY <1>2, <1>7, <2>2, <2>10, <1>3, <1>4, <1>8, AccessParts DEF PassIsDue, GrantSteps,
         WithdrawSteps, ViewerSteps, At
  <2>5. GuestIsInOrder(a)'
      BY ZenonT(60), <1>2, <1>7, <2>2, <2>10, <1>3, <1>4, <1>8, AccessParts DEF GuestIsInOrder,
         PassIsDue, HostIsInOrder, GrantSteps, WithdrawSteps, ViewerSteps, At
  <2>6. HostIsInOrder(a)'
      BY <1>2, <1>7, <2>2, <2>10, <1>3, <1>4, <1>8, AccessParts DEF HostIsInOrder, PassIsDue,
         GrantSteps, WithdrawSteps, ViewerSteps, At
  <2>7. SshIsAsDeclared(a)'
      BY <1>2, <1>7, <2>2, <2>10, <1>3, <1>4, <1>8, AccessParts DEF SshIsAsDeclared, CanBeReached,
         IsWithdrawn, PassIsDue, GuestIsInOrder, HostIsInOrder, GrantSteps, WithdrawSteps, ViewerSteps,
         At
  <2>8. PolicyIsSeen(a)'
      BY <1>2, <1>7, <2>2, <2>10, <1>3, <1>4, <1>8, AccessParts DEF PolicyIsSeen, GuestIsInOrder, At
  <2>9. ViewerIsSeen(a)'
      BY <1>2, <1>7, <2>2, <2>10, <1>3, <1>4, <1>8, AccessParts DEF ViewerIsSeen, ViewerIsOff,
         PassIsDue, At
  <2> QED
      BY <2>2, <2>4, <2>5, <2>6, <2>7, <2>8, <2>9 DEF AccessIsSound
<1> QED
    BY <1>8, <1>9 DEF AccessInv

(* A step on the host, by the pass of one agent.                           *)
LEMMA HostMoves ==
    ASSUME AccessInv, NEW a \in Incarnations, NEW from \in Steps, NEW to \in Steps, OnHost(a, from, to),
           host_key' \in [Incarnations -> 0..MaxKeys], client' \in [Incarnations -> BOOLEAN],
           known' \in [Aliases -> 0..MaxKeys], config' \in {config, Listed}, made' \in 0..MaxKeys,
           \A b \in Incarnations \ {a} : host_key'[b] = host_key[b] /\ client'[b] = client[b] /\ known'[b] = known[b],
           \A n \in Names \ {NameOf[a]} : known'[n] = known[n],
           \/ known'[a] = known[a] /\ known'[NameOf[a]] = known[NameOf[a]]
           \/ known'[NameOf[a]] \in {NoKey, known'[a]}
    PROVE  /\ access_pass[a].at = from /\ access_pass'[a].at = to
           /\ access_pass'[a].release = access_pass[a].release /\ access_pass'[a].vnc = access_pass[a].vnc
           /\ access_pass'[a].changed = access_pass[a].changed
           /\ access_pass[a].release \in BOOLEAN /\ access_pass[a].vnc \in BOOLEAN /\ access_pass[a].changed \in BOOLEAN
           /\ UnderWay(a) /\ UnderWay(a)' /\ Lives(a) /\ Lives(a)' /\ (IsCurrent(a)' <=> IsCurrent(a))
           /\ agent'[a] = agent[a] /\ spec'[a] = spec[a] /\ settled'[a] = settled[a] /\ applied'[a] = applied[a] /\ guest'[a] = guest[a]
           /\ cut' = cut /\ agent[a] \in {"active", "deleting"}
           /\ AccessIsTyped' /\ NamesAreOwned' /\ NameIsItsOwners' /\ GenerationsAreKnown(a)'
           /\ \A b \in Incarnations \ {a} : AccessIsSound(b)'
<1>2. access_pass[a] \in AccessPasses /\ access_pass[a].at = from
    BY PassFields, AccessParts DEF OnHost, PassAt
<1>3. PICK p : p = [access_pass[a] EXCEPT !.at = to]
    OBVIOUS
<1>4. p \in AccessPasses
    BY <1>2, <1>3 DEF AccessPasses, Steps
<1>10. /\ access_pass'[a].at = to
       /\ access_pass'[a].release = access_pass[a].release /\ access_pass'[a].vnc = access_pass[a].vnc
       /\ access_pass'[a].changed = access_pass[a].changed
       /\ UnderWay(a) /\ UnderWay(a)' /\ Lives(a) /\ Lives(a)' /\ (IsCurrent(a)' <=> IsCurrent(a)) /\ GenerationsAreKnown(a)'
    BY <1>3, <1>2, StepOfPass, <1>4, AccessParts DEF AccessIsTyped, OnHost, userVars, To
<1>14. MovesAlone(a)
    BY AccessFields, <1>10, <1>4, <1>3, AccessParts DEF MovesAlone, NamesAreOwned, AccessIsTyped,
       OnHost, userVars, To
<1> QED
    BY <1>2, <1>10, <1>14, OthersStaySound, <1>4, <1>3, AccessParts DEF Lives, AccessPasses,
       NameIsItsOwners, NamesAreOwned, AccessIsTyped, Listed, OnHost, userVars, To

(* Incarnations and names are aliases apart; the values that are stored.   *)
LEMMA AliasesApart ==
    ASSUME AccessIsTyped, NEW a \in Incarnations
    PROVE  /\ host_key[a] \in 0..MaxKeys /\ a \in Aliases /\ NameOf[a] \in Aliases
           /\ NameOf[a] # a /\ NameOf[a] \in Names
           /\ \A b \in Incarnations : b \in Aliases /\ NameOf[b] \in Names /\ NameOf[a] # b /\ NameOf[b] # a
           /\ Names \subseteq Aliases /\ a \notin Names /\ MaxKeys \in Nat /\ made \in 0..MaxKeys /\ NoKey \in 0..MaxKeys
BY AccessConstants DEF Aliases, Names, NoKey, AccessIsTyped

LEMMA LoadsKeeps ==
    ASSUME AccessInv, NEW a \in Incarnations, LoadsHostKey(a)
    PROVE  AccessInv'
<1>1. /\ AccessIsTyped /\ host_key[a] \in 0..MaxKeys /\ a \in Aliases /\ NameOf[a] \in Aliases
      /\ NameOf[a] # a /\ NameOf[a] \in Names
      /\ \A b \in Incarnations : b \in Aliases /\ NameOf[b] \in Names /\ NameOf[a] # b /\ NameOf[b] # a
      /\ Names \subseteq Aliases /\ a \notin Names /\ MaxKeys \in Nat /\ made \in 0..MaxKeys /\ NoKey \in 0..MaxKeys
    BY AccessParts, AliasesApart
<1>2. PICK to : to = "client files"
    OBVIOUS
<1>3. "host key" \in Steps /\ to \in Steps /\ OnHost(a, "host key", to)
    BY <1>2 DEF Steps, GrantSteps, WithdrawSteps, ViewerSteps, LoadsHostKey, rewrite_config
<1>4. /\ host_key' \in [Incarnations -> 0..MaxKeys] /\ client' \in [Incarnations -> BOOLEAN]
      /\ known' \in [Aliases -> 0..MaxKeys] /\ config' \in {config, Listed} /\ made' \in 0..MaxKeys
      /\ \A b \in Incarnations \ {a} : host_key'[b] = host_key[b] /\ client'[b] = client[b] /\ known'[b] = known[b]
      /\ \A n \in Names \ {NameOf[a]} : known'[n] = known[n]
      /\ host_key'[a] # NoKey /\ (host_key[a] # NoKey => host_key'[a] = host_key[a]) /\ client'[a] = client[a]
      /\ known'[a] = known[a] /\ known'[NameOf[a]] = known[NameOf[a]]
      /\ config' = config
  <2>1. /\ made' \in 0..MaxKeys
        /\ (host_key[a] # NoKey /\ host_key' = host_key) \/ \E k \in 1..MaxKeys : host_key[a] = NoKey /\ host_key' = [host_key EXCEPT ![a] = k]
    <3>1. CASE host_key[a] # NoKey
        BY <1>1, <3>1 DEF LoadsHostKey
    <3>2. CASE host_key[a] = NoKey
      <4>1. made < MaxKeys /\ made' = made + 1 /\ host_key' = [host_key EXCEPT ![a] = made + 1]
          BY <3>2 DEF LoadsHostKey
      <4>2. made + 1 \in 1..MaxKeys /\ made' \in 0..MaxKeys
          BY <1>1, <4>1
      <4> QED
          BY <3>2, <4>1, <4>2
    <3> QED
        BY <3>1, <3>2
  <2>3. client' = client /\ known' = known /\ config' = config
      BY DEF LoadsHostKey
  <2> QED
      BY <1>1, <2>1, <2>3 DEF AccessIsTyped, NoKey
<1>5. /\ access_pass[a].at = "host key" /\ access_pass'[a].at = to
      /\ access_pass'[a].release = access_pass[a].release /\ access_pass'[a].vnc = access_pass[a].vnc
      /\ access_pass'[a].changed = access_pass[a].changed
      /\ access_pass[a].release \in BOOLEAN /\ access_pass[a].vnc \in BOOLEAN /\ access_pass[a].changed \in BOOLEAN
      /\ UnderWay(a) /\ UnderWay(a)' /\ Lives(a) /\ Lives(a)' /\ (IsCurrent(a)' <=> IsCurrent(a))
      /\ agent'[a] = agent[a] /\ spec'[a] = spec[a] /\ settled'[a] = settled[a] /\ applied'[a] = applied[a] /\ guest'[a] = guest[a]
      /\ cut' = cut /\ agent[a] \in {"active", "deleting"}
      /\ AccessIsTyped' /\ NamesAreOwned' /\ NameIsItsOwners' /\ GenerationsAreKnown(a)'
      /\ \A b \in Incarnations \ {a} : AccessIsSound(b)'
    BY <1>4, <1>3, HostMoves
<1>7. AccessIsSound(a)'
  <2>1. /\ PassIsDue(a) /\ GuestIsInOrder(a) /\ HostIsInOrder(a)
        /\ SshIsAsDeclared(a) /\ PolicyIsSeen(a) /\ ViewerIsSeen(a)
      BY AccessParts
  <2>10. IsCurrent(a) => agent[a] = "active" /\ ~access_pass[a].release
      BY <1>5, <2>1 DEF PassIsDue, IsCurrent
  <2>4. PassIsDue(a)'
      BY <1>1, <1>5, <2>1, <2>10, <1>2, <1>4 DEF PassIsDue, GrantSteps, WithdrawSteps, ViewerSteps,
         At
  <2>5. GuestIsInOrder(a)'
      BY ZenonT(60), <1>1, <1>5, <2>1, <2>10, <1>2, <1>4 DEF GuestIsInOrder, PassIsDue,
         HostIsInOrder, GrantSteps, WithdrawSteps, ViewerSteps, At
  <2>6. HostIsInOrder(a)'
      BY <1>1, <1>5, <2>1, <2>10, <1>2, <1>4 DEF HostIsInOrder, PassIsDue, Listed, GrantSteps,
         WithdrawSteps, ViewerSteps, At
  <2>7. SshIsAsDeclared(a)'
      BY <1>1, <1>5, <2>1, <2>10, <1>2, <1>4 DEF SshIsAsDeclared, CanBeReached, IsWithdrawn,
         PassIsDue, GuestIsInOrder, HostIsInOrder, Listed, GrantSteps, WithdrawSteps, ViewerSteps, At
  <2>8. PolicyIsSeen(a)' /\ ViewerIsSeen(a)'
      BY <1>1, <1>5, <2>1, <2>10, <1>2, <1>4 DEF PolicyIsSeen, ViewerIsSeen, ViewerIsOff, At
  <2> QED
      BY <1>5, <2>4, <2>5, <2>6, <2>7, <2>8 DEF AccessIsSound
<1> QED
    BY <1>5, <1>7 DEF AccessInv

LEMMA ClientFilesKeep ==
    ASSUME AccessInv, NEW a \in Incarnations, WritesClientFiles(a)
    PROVE  AccessInv'
<1>1. /\ AccessIsTyped /\ host_key[a] \in 0..MaxKeys /\ a \in Aliases /\ NameOf[a] \in Aliases
      /\ NameOf[a] # a /\ NameOf[a] \in Names
      /\ \A b \in Incarnations : b \in Aliases /\ NameOf[b] \in Names /\ NameOf[a] # b /\ NameOf[b] # a
      /\ Names \subseteq Aliases /\ a \notin Names /\ MaxKeys \in Nat /\ made \in 0..MaxKeys /\ NoKey \in 0..MaxKeys
    BY AccessParts, AliasesApart
<1>2. PICK to : to = "configuration"
    OBVIOUS
<1>3. "client files" \in Steps /\ to \in Steps /\ OnHost(a, "client files", to)
    BY <1>2 DEF Steps, GrantSteps, WithdrawSteps, ViewerSteps, WritesClientFiles, rewrite_config
<1>4. /\ host_key' \in [Incarnations -> 0..MaxKeys] /\ client' \in [Incarnations -> BOOLEAN]
      /\ known' \in [Aliases -> 0..MaxKeys] /\ config' \in {config, Listed} /\ made' \in 0..MaxKeys
      /\ \A b \in Incarnations \ {a} : host_key'[b] = host_key[b] /\ client'[b] = client[b] /\ known'[b] = known[b]
      /\ \A n \in Names \ {NameOf[a]} : known'[n] = known[n]
      /\ host_key'[a] = host_key[a] /\ client'[a]
      /\ known'[a] = host_key[a] /\ known'[NameOf[a]] = host_key[a]
      /\ config' = config
    BY <1>1 DEF WritesClientFiles, AccessIsTyped, NoKey
<1>5. /\ access_pass[a].at = "client files" /\ access_pass'[a].at = to
      /\ access_pass'[a].release = access_pass[a].release /\ access_pass'[a].vnc = access_pass[a].vnc
      /\ access_pass'[a].changed = access_pass[a].changed
      /\ access_pass[a].release \in BOOLEAN /\ access_pass[a].vnc \in BOOLEAN /\ access_pass[a].changed \in BOOLEAN
      /\ UnderWay(a) /\ UnderWay(a)' /\ Lives(a) /\ Lives(a)' /\ (IsCurrent(a)' <=> IsCurrent(a))
      /\ agent'[a] = agent[a] /\ spec'[a] = spec[a] /\ settled'[a] = settled[a] /\ applied'[a] = applied[a] /\ guest'[a] = guest[a]
      /\ cut' = cut /\ agent[a] \in {"active", "deleting"}
      /\ AccessIsTyped' /\ NamesAreOwned' /\ NameIsItsOwners' /\ GenerationsAreKnown(a)'
      /\ \A b \in Incarnations \ {a} : AccessIsSound(b)'
    BY <1>4, <1>3, HostMoves
<1>6. /\ host_key'[a] = host_key[a] /\ client'[a]
      /\ known'[a] = host_key[a] /\ known'[NameOf[a]] = host_key[a]
      /\ config' = config
      /\ to = "configuration"
    BY <1>2, <1>4
<1>7. AccessIsSound(a)'
  <2>1. /\ PassIsDue(a) /\ GuestIsInOrder(a) /\ HostIsInOrder(a)
        /\ SshIsAsDeclared(a) /\ PolicyIsSeen(a) /\ ViewerIsSeen(a)
      BY AccessParts
  <2>10. IsCurrent(a) => agent[a] = "active" /\ ~access_pass[a].release
      BY <1>5, <2>1 DEF PassIsDue, IsCurrent
  <2>4. PassIsDue(a)'
      BY <1>1, <1>5, <1>6, <2>1, <2>10 DEF PassIsDue, GrantSteps, WithdrawSteps, ViewerSteps, At
  <2>5. GuestIsInOrder(a)'
      BY ZenonT(60), <1>1, <1>5, <1>6, <2>1, <2>10 DEF GuestIsInOrder, PassIsDue, HostIsInOrder, GrantSteps, WithdrawSteps, ViewerSteps, At
  <2>6. HostIsInOrder(a)'
      BY <1>1, <1>5, <1>6, <2>1, <2>10 DEF HostIsInOrder, PassIsDue, Listed, GrantSteps, WithdrawSteps, ViewerSteps, At
  <2>7. SshIsAsDeclared(a)'
      BY <1>1, <1>5, <1>6, <2>1, <2>10 DEF SshIsAsDeclared, CanBeReached, IsWithdrawn, PassIsDue, GuestIsInOrder, HostIsInOrder, Listed, GrantSteps, WithdrawSteps, ViewerSteps, At
  <2>8. PolicyIsSeen(a)' /\ ViewerIsSeen(a)'
      BY <1>1, <1>5, <1>6, <2>1, <2>10 DEF PolicyIsSeen, ViewerIsSeen, ViewerIsOff, At
  <2> QED
      BY <1>5, <2>4, <2>5, <2>6, <2>7, <2>8 DEF AccessIsSound
<1> QED
    BY <1>5, <1>7 DEF AccessInv

LEMMA ConfigurationKeeps ==
    ASSUME AccessInv, NEW a \in Incarnations, rewrite_config(a, "configuration", "server key")
    PROVE  AccessInv'
<1>1. /\ AccessIsTyped /\ host_key[a] \in 0..MaxKeys /\ a \in Aliases /\ NameOf[a] \in Aliases
      /\ NameOf[a] # a /\ NameOf[a] \in Names
      /\ \A b \in Incarnations : b \in Aliases /\ NameOf[b] \in Names /\ NameOf[a] # b /\ NameOf[b] # a
      /\ Names \subseteq Aliases /\ a \notin Names /\ MaxKeys \in Nat /\ made \in 0..MaxKeys /\ NoKey \in 0..MaxKeys
    BY AccessParts, AliasesApart
<1>2. PICK to : to = "server key"
    OBVIOUS
<1>3. "configuration" \in Steps /\ to \in Steps /\ OnHost(a, "configuration", to)
    BY <1>2 DEF Steps, GrantSteps, WithdrawSteps, ViewerSteps, rewrite_config, rewrite_config
<1>4. /\ host_key' \in [Incarnations -> 0..MaxKeys] /\ client' \in [Incarnations -> BOOLEAN]
      /\ known' \in [Aliases -> 0..MaxKeys] /\ config' \in {config, Listed} /\ made' \in 0..MaxKeys
      /\ \A b \in Incarnations \ {a} : host_key'[b] = host_key[b] /\ client'[b] = client[b] /\ known'[b] = known[b]
      /\ \A n \in Names \ {NameOf[a]} : known'[n] = known[n]
      /\ host_key'[a] = host_key[a] /\ client'[a] = client[a]
      /\ known'[a] = known[a] /\ known'[NameOf[a]] = known[NameOf[a]]
      /\ config' = Listed
    BY <1>1 DEF rewrite_config, AccessIsTyped, NoKey
<1>5. /\ access_pass[a].at = "configuration" /\ access_pass'[a].at = to
      /\ access_pass'[a].release = access_pass[a].release /\ access_pass'[a].vnc = access_pass[a].vnc
      /\ access_pass'[a].changed = access_pass[a].changed
      /\ access_pass[a].release \in BOOLEAN /\ access_pass[a].vnc \in BOOLEAN /\ access_pass[a].changed \in BOOLEAN
      /\ UnderWay(a) /\ UnderWay(a)' /\ Lives(a) /\ Lives(a)' /\ (IsCurrent(a)' <=> IsCurrent(a))
      /\ agent'[a] = agent[a] /\ spec'[a] = spec[a] /\ settled'[a] = settled[a] /\ applied'[a] = applied[a] /\ guest'[a] = guest[a]
      /\ cut' = cut /\ agent[a] \in {"active", "deleting"}
      /\ AccessIsTyped' /\ NamesAreOwned' /\ NameIsItsOwners' /\ GenerationsAreKnown(a)'
      /\ \A b \in Incarnations \ {a} : AccessIsSound(b)'
    BY <1>4, <1>3, HostMoves
<1>7. AccessIsSound(a)'
  <2>1. /\ PassIsDue(a) /\ GuestIsInOrder(a) /\ HostIsInOrder(a)
        /\ SshIsAsDeclared(a) /\ PolicyIsSeen(a) /\ ViewerIsSeen(a)
      BY AccessParts
  <2>10. IsCurrent(a) => agent[a] = "active" /\ ~access_pass[a].release
      BY <1>5, <2>1 DEF PassIsDue, IsCurrent
  <2>4. PassIsDue(a)'
      BY <1>1, <1>5, <2>1, <2>10, <1>2, <1>4 DEF PassIsDue, GrantSteps, WithdrawSteps, ViewerSteps,
         At
  <2>5. GuestIsInOrder(a)'
      BY ZenonT(60), <1>1, <1>5, <2>1, <2>10, <1>2, <1>4 DEF GuestIsInOrder, PassIsDue,
         HostIsInOrder, GrantSteps, WithdrawSteps, ViewerSteps, At
  <2>6. HostIsInOrder(a)'
      BY <1>1, <1>5, <2>1, <2>10, <1>2, <1>4 DEF HostIsInOrder, PassIsDue, Listed, GrantSteps,
         WithdrawSteps, ViewerSteps, At
  <2>7. SshIsAsDeclared(a)'
      BY <1>1, <1>5, <2>1, <2>10, <1>2, <1>4 DEF SshIsAsDeclared, CanBeReached, IsWithdrawn,
         PassIsDue, GuestIsInOrder, HostIsInOrder, Listed, GrantSteps, WithdrawSteps, ViewerSteps, At
  <2>8. PolicyIsSeen(a)' /\ ViewerIsSeen(a)'
      BY <1>1, <1>5, <2>1, <2>10, <1>2, <1>4 DEF PolicyIsSeen, ViewerIsSeen, ViewerIsOff, At
  <2> QED
      BY <1>5, <2>4, <2>5, <2>6, <2>7, <2>8 DEF AccessIsSound
<1> QED
    BY <1>5, <1>7 DEF AccessInv

LEMMA LastConfigurationKeeps ==
    ASSUME AccessInv, NEW a \in Incarnations, RewritesLast(a)
    PROVE  AccessInv'
<1>1. /\ AccessIsTyped /\ host_key[a] \in 0..MaxKeys /\ a \in Aliases /\ NameOf[a] \in Aliases
      /\ NameOf[a] # a /\ NameOf[a] \in Names
      /\ \A b \in Incarnations : b \in Aliases /\ NameOf[b] \in Names /\ NameOf[a] # b /\ NameOf[b] # a
      /\ Names \subseteq Aliases /\ a \notin Names /\ MaxKeys \in Nat /\ made \in 0..MaxKeys /\ NoKey \in 0..MaxKeys
    BY AccessParts, AliasesApart
<1>2. PICK to : to = (IF access_pass[a].release THEN "finalize" ELSE IF access_pass[a].vnc THEN "grant" ELSE "withdraw")
    OBVIOUS
<1>3. "last configuration" \in Steps /\ to \in Steps /\ OnHost(a, "last configuration", to)
    BY <1>2 DEF Steps, GrantSteps, WithdrawSteps, ViewerSteps, RewritesLast, rewrite_config
<1>4. /\ host_key' \in [Incarnations -> 0..MaxKeys] /\ client' \in [Incarnations -> BOOLEAN]
      /\ known' \in [Aliases -> 0..MaxKeys] /\ config' \in {config, Listed} /\ made' \in 0..MaxKeys
      /\ \A b \in Incarnations \ {a} : host_key'[b] = host_key[b] /\ client'[b] = client[b] /\ known'[b] = known[b]
      /\ \A n \in Names \ {NameOf[a]} : known'[n] = known[n]
      /\ host_key'[a] = host_key[a] /\ client'[a] = client[a]
      /\ known'[a] = known[a] /\ known'[NameOf[a]] = known[NameOf[a]]
      /\ config' = Listed
    BY <1>1 DEF RewritesLast, rewrite_config, AccessIsTyped, NoKey
<1>5. /\ access_pass[a].at = "last configuration" /\ access_pass'[a].at = to
      /\ access_pass'[a].release = access_pass[a].release /\ access_pass'[a].vnc = access_pass[a].vnc
      /\ access_pass'[a].changed = access_pass[a].changed
      /\ access_pass[a].release \in BOOLEAN /\ access_pass[a].vnc \in BOOLEAN /\ access_pass[a].changed \in BOOLEAN
      /\ UnderWay(a) /\ UnderWay(a)' /\ Lives(a) /\ Lives(a)' /\ (IsCurrent(a)' <=> IsCurrent(a))
      /\ agent'[a] = agent[a] /\ spec'[a] = spec[a] /\ settled'[a] = settled[a] /\ applied'[a] = applied[a] /\ guest'[a] = guest[a]
      /\ cut' = cut /\ agent[a] \in {"active", "deleting"}
      /\ AccessIsTyped' /\ NamesAreOwned' /\ NameIsItsOwners' /\ GenerationsAreKnown(a)'
      /\ \A b \in Incarnations \ {a} : AccessIsSound(b)'
    BY <1>4, <1>3, HostMoves
<1>7. AccessIsSound(a)'
  <2>1. /\ PassIsDue(a) /\ GuestIsInOrder(a) /\ HostIsInOrder(a)
        /\ SshIsAsDeclared(a) /\ PolicyIsSeen(a) /\ ViewerIsSeen(a)
      BY AccessParts
  <2>10. IsCurrent(a) => agent[a] = "active" /\ ~access_pass[a].release
      BY <1>5, <2>1 DEF PassIsDue, IsCurrent
  <2>4. PassIsDue(a)'
      BY <1>1, <1>5, <2>1, <2>10, <1>2, <1>4 DEF PassIsDue, GrantSteps, WithdrawSteps, ViewerSteps,
         At
  <2>5. GuestIsInOrder(a)'
      BY ZenonT(60), <1>1, <1>5, <2>1, <2>10, <1>2, <1>4 DEF GuestIsInOrder, PassIsDue,
         HostIsInOrder, GrantSteps, WithdrawSteps, ViewerSteps, At
  <2>6. HostIsInOrder(a)'
      BY <1>1, <1>5, <2>1, <2>10, <1>2, <1>4 DEF HostIsInOrder, PassIsDue, Listed, GrantSteps,
         WithdrawSteps, ViewerSteps, At
  <2>7. SshIsAsDeclared(a)'
      BY <1>1, <1>5, <2>1, <2>10, <1>2, <1>4 DEF SshIsAsDeclared, CanBeReached, IsWithdrawn,
         PassIsDue, GuestIsInOrder, HostIsInOrder, Listed, GrantSteps, WithdrawSteps, ViewerSteps, At
  <2>8. PolicyIsSeen(a)' /\ ViewerIsSeen(a)'
      BY <1>1, <1>5, <2>1, <2>10, <1>2, <1>4 DEF PolicyIsSeen, ViewerIsSeen, ViewerIsOff, At
  <2> QED
      BY <1>5, <2>4, <2>5, <2>6, <2>7, <2>8 DEF AccessIsSound
<1> QED
    BY <1>5, <1>7 DEF AccessInv

LEMMA HostKeyGoes ==
    ASSUME AccessInv, NEW a \in Incarnations, DeletesHostKey(a)
    PROVE  AccessInv'
<1>1. /\ AccessIsTyped /\ host_key[a] \in 0..MaxKeys /\ a \in Aliases /\ NameOf[a] \in Aliases
      /\ NameOf[a] # a /\ NameOf[a] \in Names
      /\ \A b \in Incarnations : b \in Aliases /\ NameOf[b] \in Names /\ NameOf[a] # b /\ NameOf[b] # a
      /\ Names \subseteq Aliases /\ a \notin Names /\ MaxKeys \in Nat /\ made \in 0..MaxKeys /\ NoKey \in 0..MaxKeys
    BY AccessParts, AliasesApart
<1>2. PICK to : to = "host files"
    OBVIOUS
<1>3. "host material" \in Steps /\ to \in Steps /\ OnHost(a, "host material", to)
    BY <1>2 DEF Steps, GrantSteps, WithdrawSteps, ViewerSteps, DeletesHostKey, rewrite_config
<1>5. /\ access_pass[a].at = "host material" /\ access_pass'[a].at = to
      /\ access_pass'[a].release = access_pass[a].release /\ access_pass'[a].vnc = access_pass[a].vnc
      /\ access_pass'[a].changed = access_pass[a].changed
      /\ access_pass[a].release \in BOOLEAN /\ access_pass[a].vnc \in BOOLEAN /\ access_pass[a].changed \in BOOLEAN
      /\ UnderWay(a) /\ UnderWay(a)' /\ Lives(a) /\ Lives(a)' /\ (IsCurrent(a)' <=> IsCurrent(a))
      /\ agent'[a] = agent[a] /\ spec'[a] = spec[a] /\ settled'[a] = settled[a] /\ applied'[a] = applied[a] /\ guest'[a] = guest[a]
      /\ cut' = cut /\ agent[a] \in {"active", "deleting"}
      /\ AccessIsTyped' /\ NamesAreOwned' /\ NameIsItsOwners' /\ GenerationsAreKnown(a)'
      /\ \A b \in Incarnations \ {a} : AccessIsSound(b)'
    BY <1>3, HostMoves, <1>1 DEF DeletesHostKey, AccessIsTyped, NoKey
<1>6. /\ host_key'[a] = NoKey /\ client'[a] = client[a]
      /\ known'[a] = known[a] /\ known'[NameOf[a]] = known[NameOf[a]]
      /\ config' = config
      /\ to = "host files"
    BY <1>2, <1>1 DEF DeletesHostKey, AccessIsTyped, NoKey
<1>7. AccessIsSound(a)'
  <2>1. /\ PassIsDue(a) /\ GuestIsInOrder(a) /\ HostIsInOrder(a)
        /\ SshIsAsDeclared(a) /\ PolicyIsSeen(a) /\ ViewerIsSeen(a)
      BY AccessParts
  <2>10. IsCurrent(a) => agent[a] = "active" /\ ~access_pass[a].release
      BY <1>5, <2>1 DEF PassIsDue, IsCurrent
  <2>4. PassIsDue(a)'
      BY <1>1, <1>5, <1>6, <2>1, <2>10 DEF PassIsDue, GrantSteps, WithdrawSteps, ViewerSteps, At
  <2>5. GuestIsInOrder(a)'
      BY ZenonT(60), <1>1, <1>5, <1>6, <2>1, <2>10 DEF GuestIsInOrder, PassIsDue, HostIsInOrder, GrantSteps, WithdrawSteps, ViewerSteps, At
  <2>6. HostIsInOrder(a)'
      BY <1>1, <1>5, <1>6, <2>1, <2>10 DEF HostIsInOrder, PassIsDue, Listed, GrantSteps, WithdrawSteps, ViewerSteps, At
  <2>7. SshIsAsDeclared(a)'
      BY <1>1, <1>5, <1>6, <2>1, <2>10 DEF SshIsAsDeclared, CanBeReached, IsWithdrawn, PassIsDue, GuestIsInOrder, HostIsInOrder, Listed, GrantSteps, WithdrawSteps, ViewerSteps, At
  <2>8. PolicyIsSeen(a)' /\ ViewerIsSeen(a)'
      BY <1>1, <1>5, <1>6, <2>1, <2>10 DEF PolicyIsSeen, ViewerIsSeen, ViewerIsOff, At
  <2> QED
      BY <1>5, <2>4, <2>5, <2>6, <2>7, <2>8 DEF AccessIsSound
<1> QED
    BY <1>5, <1>7 DEF AccessInv

LEMMA HostFilesGo ==
    ASSUME AccessInv, NEW a \in Incarnations, RemovesHostFiles(a)
    PROVE  AccessInv'
<1>1. /\ AccessIsTyped /\ host_key[a] \in 0..MaxKeys /\ a \in Aliases /\ NameOf[a] \in Aliases
      /\ NameOf[a] # a /\ NameOf[a] \in Names
      /\ \A b \in Incarnations : b \in Aliases /\ NameOf[b] \in Names /\ NameOf[a] # b /\ NameOf[b] # a
      /\ Names \subseteq Aliases /\ a \notin Names /\ MaxKeys \in Nat /\ made \in 0..MaxKeys /\ NoKey \in 0..MaxKeys
    BY AccessParts, AliasesApart
<1>2. PICK to : to = "last configuration"
    OBVIOUS
<1>3. "host files" \in Steps /\ to \in Steps /\ OnHost(a, "host files", to)
    BY <1>2 DEF Steps, GrantSteps, WithdrawSteps, ViewerSteps, RemovesHostFiles, rewrite_config
<1>4. /\ host_key' \in [Incarnations -> 0..MaxKeys] /\ client' \in [Incarnations -> BOOLEAN]
      /\ known' \in [Aliases -> 0..MaxKeys] /\ config' \in {config, Listed} /\ made' \in 0..MaxKeys
      /\ \A b \in Incarnations \ {a} : host_key'[b] = host_key[b] /\ client'[b] = client[b] /\ known'[b] = known[b]
      /\ \A n \in Names \ {NameOf[a]} : known'[n] = known[n]
      /\ host_key'[a] = host_key[a] /\ ~client'[a]
      /\ known'[a] = NoKey /\ known'[NameOf[a]] = NoKey
      /\ config' = config
  <2>1. ~OwnedByAnother(a)
      BY AccessParts, PassFields DEF RemovesHostFiles, OnHost, PassAt, PassIsDue, OwnedByAnother,
         NamesAreOwned, Lives
  <2>3. host_key' = host_key /\ config' = config /\ made' = made /\ client' = [client EXCEPT ![a] = FALSE]
      BY DEF RemovesHostFiles
  <2> QED
      BY <1>1, <2>3, <2>1 DEF AccessIsTyped, RemovesHostFiles
<1>5. /\ access_pass[a].at = "host files" /\ access_pass'[a].at = to
      /\ access_pass'[a].release = access_pass[a].release /\ access_pass'[a].vnc = access_pass[a].vnc
      /\ access_pass'[a].changed = access_pass[a].changed
      /\ access_pass[a].release \in BOOLEAN /\ access_pass[a].vnc \in BOOLEAN /\ access_pass[a].changed \in BOOLEAN
      /\ UnderWay(a) /\ UnderWay(a)' /\ Lives(a) /\ Lives(a)' /\ (IsCurrent(a)' <=> IsCurrent(a))
      /\ agent'[a] = agent[a] /\ spec'[a] = spec[a] /\ settled'[a] = settled[a] /\ applied'[a] = applied[a] /\ guest'[a] = guest[a]
      /\ cut' = cut /\ agent[a] \in {"active", "deleting"}
      /\ AccessIsTyped' /\ NamesAreOwned' /\ NameIsItsOwners' /\ GenerationsAreKnown(a)'
      /\ \A b \in Incarnations \ {a} : AccessIsSound(b)'
    BY <1>4, <1>3, HostMoves
<1>7. AccessIsSound(a)'
  <2>1. /\ PassIsDue(a) /\ GuestIsInOrder(a) /\ HostIsInOrder(a)
        /\ SshIsAsDeclared(a) /\ PolicyIsSeen(a) /\ ViewerIsSeen(a)
      BY AccessParts
  <2>10. IsCurrent(a) => agent[a] = "active" /\ ~access_pass[a].release
      BY <1>5, <2>1 DEF PassIsDue, IsCurrent
  <2>4. PassIsDue(a)'
      BY <1>1, <1>5, <2>1, <2>10, <1>2, <1>4 DEF PassIsDue, GrantSteps, WithdrawSteps, ViewerSteps,
         At
  <2>5. GuestIsInOrder(a)'
      BY ZenonT(60), <1>1, <1>5, <2>1, <2>10, <1>2, <1>4 DEF GuestIsInOrder, PassIsDue,
         HostIsInOrder, GrantSteps, WithdrawSteps, ViewerSteps, At
  <2>6. HostIsInOrder(a)'
      BY <1>1, <1>5, <2>1, <2>10, <1>2, <1>4 DEF HostIsInOrder, PassIsDue, Listed, GrantSteps,
         WithdrawSteps, ViewerSteps, At
  <2>7. SshIsAsDeclared(a)'
      BY <1>1, <1>5, <2>1, <2>10, <1>2, <1>4 DEF SshIsAsDeclared, CanBeReached, IsWithdrawn,
         PassIsDue, GuestIsInOrder, HostIsInOrder, Listed, GrantSteps, WithdrawSteps, ViewerSteps, At
  <2>8. PolicyIsSeen(a)' /\ ViewerIsSeen(a)'
      BY <1>1, <1>5, <2>1, <2>10, <1>2, <1>4 DEF PolicyIsSeen, ViewerIsSeen, ViewerIsOff, At
  <2> QED
      BY <1>5, <2>4, <2>5, <2>6, <2>7, <2>8 DEF AccessIsSound
<1> QED
    BY <1>5, <1>7 DEF AccessInv

(* A pass of an agent that ends, however it does.                          *)
LEMMA PassGone ==
    ASSUME AccessInv, NEW a \in Incarnations, access_pass'[a] = NoAccessPass,
           agent'[a] = agent[a], spec'[a] = spec[a], host_key'[a] = host_key[a], client'[a] = client[a],
           known' = known, config' = config, guest'[a] = guest[a], applies' = applies,
           <<a, "policy">> \in cut \cup Unrestarted(a) => <<a, "policy">> \in cut',
           settled'[a] => settled[a] \/ (IsCurrent(a) /\ At(a, ViewerSteps)),
           applied'[a] = "withdrawn" => ViewerIsOff(a) \/ <<a, "viewer">> \in cut',
           settled'[a] /\ ~spec[a].vnc => ViewerIsOff(a) \/ <<a, "viewer">> \in cut'
    PROVE  AccessIsSound(a)'
<1>1. /\ GenerationsAreKnown(a) /\ PassIsDue(a) /\ GuestIsInOrder(a) /\ HostIsInOrder(a)
      /\ SshIsAsDeclared(a) /\ PolicyIsSeen(a)
    BY AccessParts
<1>2. access_pass'[a].at = "idle" /\ ~UnderWay(a)' /\ ~IsCurrent(a)' /\ (Lives(a)' <=> Lives(a))
    BY DEF NoAccessPass, UnderWay, IsCurrent, Lives
<1>3. GenerationsAreKnown(a)'
    BY <1>1, <1>2 DEF GenerationsAreKnown
<1>5. PassIsDue(a)'
    BY <1>1, <1>2 DEF PassIsDue, At, GrantSteps, WithdrawSteps, ViewerSteps, IsCurrent
<1>6. GuestIsInOrder(a)'
    BY <1>1, <1>2 DEF GuestIsInOrder, At
<1>7. HostIsInOrder(a)'
    BY <1>1, <1>2 DEF HostIsInOrder, At, GrantSteps
<1> QED
    BY <1>3, <1>5, <1>6, <1>7, <1>2, <1>1 DEF AccessIsSound, ViewerIsSeen, ViewerIsOff, At,
       Unrestarted, PolicyIsSeen, SshIsAsDeclared, CanBeReached, IsWithdrawn

LEMMA PassEnds ==
    ASSUME AccessInv, NEW a \in Incarnations, access_pass' = [access_pass EXCEPT ![a] = NoAccessPass],
           UNCHANGED <<agent, spec, applies, host_key, client, known, config, guest, made, release>>,
           NEW s \in BOOLEAN, settled' = [settled EXCEPT ![a] = s],
           NEW v \in {"unknown", "granted", "withdrawn"}, applied' = [applied EXCEPT ![a] = v],
           \A b \in Incarnations \ {a} : /\ <<b, "policy">> \in cut => <<b, "policy">> \in cut'
                                         /\ <<b, "viewer">> \in cut => <<b, "viewer">> \in cut',
           <<a, "policy">> \in cut \cup Unrestarted(a) => <<a, "policy">> \in cut',
           s => settled[a] \/ (IsCurrent(a) /\ At(a, ViewerSteps)),
           v = "withdrawn" => ViewerIsOff(a) \/ <<a, "viewer">> \in cut',
           s /\ ~spec[a].vnc => ViewerIsOff(a) \/ <<a, "viewer">> \in cut'
    PROVE  AccessInv'
BY AccessParts, PassGone, OthersStaySound DEF AccessIsTyped, NamesAreOwned, NameIsItsOwners, Lives,
   MovesAlone, AccessInv

(* What a pass that ends well settles.                                     *)
LEMMA RecordsParts ==
    ASSUME AccessInv, NEW a \in Incarnations, NEW v \in {"granted", "withdrawn"}, RecordsAccess(a, v),
           access_pass[a] # NoAccessPass, At(a, ViewerSteps)
    PROVE  \E s \in BOOLEAN :
              /\ settled' = [settled EXCEPT ![a] = s]
              /\ s => IsCurrent(a) /\ (access_pass[a].vnc <=> spec[a].vnc)
BY AccessParts, PassFields DEF RecordsAccess, PassIsDue, IsCurrent

LEMMA ViewerIsRecorded ==
    ASSUME AccessInv, NEW a \in Incarnations, SeesViewer(a) \/ SkipsWithdrawal(a) \/ SeesNoViewer(a)
    PROVE  AccessInv'
<1>2. /\ access_pass[a] # NoAccessPass /\ At(a, ViewerSteps)
      /\ UNCHANGED <<agent, spec, applies, host_key, client, known, config, guest, made, release>>
    BY DEF SeesViewer, SkipsWithdrawal, SeesNoViewer, PassAt, At, ViewerSteps, userVars, hostVars
<1>4. CASE SeesViewer(a)
    BY <1>4, <1>2, RecordsParts, PassEnds, AccessParts DEF SeesViewer, PassAt, At, RecordsAccess,
       PassIsDue, Unrestarted, ViewerSteps
<1>5. CASE SkipsWithdrawal(a)
    BY <1>5, <1>2, RecordsParts, PassEnds, AccessParts DEF SkipsWithdrawal, PassAt, At,
       RecordsAccess, ViewerIsSeen, Unrestarted, ViewerSteps
<1>6. CASE SeesNoViewer(a)
    BY <1>6, <1>2, RecordsParts, PassEnds, AccessParts DEF SeesNoViewer, PassAt, At, RecordsAccess,
       ViewerIsSeen, Unrestarted, ViewerSteps
<1> QED
    BY <1>4, <1>5, <1>6

LEMMA CutShortKeeps ==
    ASSUME AccessInv, NEW a \in Incarnations, Fails(a) \/ Dropped(a)
    PROVE  AccessInv'
<1>3. PICK v \in {"unknown", "granted", "withdrawn"} :
        /\ applied' = [applied EXCEPT ![a] = v]
        /\ v = "withdrawn" => ViewerIsOff(a) \/ <<a, "viewer">> \in cut'
    BY AccessParts, AccessFields DEF Fails, InViewer, At, ViewerIsSeen, Dropped, AccessIsTyped,
       Misremembered
<1> QED
    BY <1>3, PassEnds DEF Fails, Dropped, userVars, hostVars

LEMMA RestartKeeps ==
    ASSUME AccessInv, AgentdRestarts
    PROVE  AccessInv'
<1>6. ASSUME NEW a \in Incarnations PROVE AccessIsSound(a)'
    BY AccessParts, PassGone DEF AgentdRestarts, ViewerIsSeen, userVars, hostVars
<1> QED
    BY <1>6, AccessConstants, AccessParts DEF AccessInv, NamesAreOwned, NameIsItsOwners, Lives,
       AccessIsTyped, AgentdRestarts, userVars, hostVars

LEMMA FinalizeKeeps ==
    ASSUME AccessInv, NEW a \in Incarnations, Finalizes(a)
    PROVE  AccessInv'
<1>3. /\ agent[a] = "deleting" /\ guest[a] = NoGuest /\ ~settled[a] /\ UnderWay(a) /\ access_pass[a].release
      /\ host_key[a] = NoKey /\ known[a] = NoKey /\ ~client[a] /\ a \notin config
    BY AccessParts DEF PassIsDue, UnderWay, At, GuestIsInOrder, HostIsInOrder, Finalizes, PassAt
<1>4. /\ UNCHANGED <<spec, applies, settled, client, known, config, guest, made, release, cut>>
      /\ agent' = [agent EXCEPT ![a] = "gone"] /\ applied' = [applied EXCEPT ![a] = "unknown"]
      /\ host_key' = [host_key EXCEPT ![a] = NoKey] /\ access_pass' = [access_pass EXCEPT ![a] = NoAccessPass]
    BY DEF Finalizes
<1>7. /\ host_key' \in [Incarnations -> 0..MaxKeys] /\ host_key'[a] = NoKey
      /\ access_pass' \in [Incarnations -> AccessPasses \cup {NoAccessPass}] /\ access_pass'[a] = NoAccessPass
      /\ \A b \in Incarnations \ {a} : host_key'[b] = host_key[b] /\ access_pass'[b] = access_pass[b]
    BY <1>4, AliasesApart, AccessParts DEF AccessIsTyped
<1>11. MovesAlone(a)
    BY <1>4, <1>7, AccessFields, AccessParts DEF MovesAlone, AccessIsTyped
<1>12. AccessIsSound(a)'
  <2>1. /\ access_pass'[a].at = "idle" /\ ~UnderWay(a)' /\ ~IsCurrent(a)' /\ ~Lives(a)' /\ ~settled'[a]
      BY <1>3, <1>4, <1>7, AccessParts DEF NoAccessPass, UnderWay, IsCurrent, Lives, AccessIsTyped
  <2>2. /\ NoGuest.server = Off /\ NoGuest.key = NoKey /\ ~NoGuest.enabled /\ ~NoGuest.unit /\ NoGuest.viewer = "inactive"
      BY DEF NoGuest, NewGuest
  <2>7. SshIsAsDeclared(a)' /\ PolicyIsSeen(a)' /\ ViewerIsSeen(a)'
      BY <1>3, <1>4, <2>1, <2>2, AccessParts DEF SshIsAsDeclared, PolicyIsSeen, ViewerIsSeen, At,
         AccessIsTyped
  <2> QED
      BY <2>7, <1>3, <1>4, <1>7, <2>1, <2>2, AccessParts DEF AccessIsSound, HostIsInOrder, At,
         GrantSteps, GuestIsInOrder, PassIsDue, WithdrawSteps, ViewerSteps, GenerationsAreKnown
<1> QED
    BY <1>11, <1>12, OthersStaySound, <1>4, <1>3, <1>7, AccessParts DEF AccessInv, NameIsItsOwners,
       NamesAreOwned, Lives, AccessIsTyped

(* A manifest or a deletion moves on from whatever pass is under way.      *)
LEMMA DeclaredAnew ==
    ASSUME AccessInv, NEW a \in Incarnations, UNCHANGED <<host_key, client, known, config, guest, access_pass, cut>>,
           agent'[a] \in {"active", "deleting"}, agent[a] \in {"active", "absent"}, applies <= applies',
           spec'[a].generation <= applies', ~settled'[a], applied'[a] = applied[a],
           applies' \in Nat, agent'[a] = "active" => spec'[a].generation > applies
    PROVE  AccessIsSound(a)'
<1>3. (UnderWay(a)' <=> UnderWay(a)) /\ Lives(a)' /\ (UnderWay(a) => agent[a] = "active" /\ ~access_pass[a].release)
    BY AccessParts DEF UnderWay, Lives, PassIsDue
<1>4. GenerationsAreKnown(a)'
    BY <1>3, AccessFields, PassFields, AccessParts DEF GenerationsAreKnown
<1>5. ~IsCurrent(a)'
    BY <1>3, AccessFields, PassFields, AccessParts DEF IsCurrent, GenerationsAreKnown
<1>6. PassIsDue(a)'
    BY <1>3, <1>5, AccessFields, PassFields, AccessParts DEF PassIsDue, At
<1>7. GuestIsInOrder(a)'
    BY <1>3, AccessParts DEF GuestIsInOrder, At
<1> QED
    BY <1>4, <1>6, <1>7, <1>5, AccessParts DEF AccessIsSound, SshIsAsDeclared, PolicyIsSeen,
       ViewerIsSeen, ViewerIsOff, At, HostIsInOrder

LEMMA AppliesKeeps ==
    ASSUME AccessInv, NEW a \in Incarnations, Applies(a)
    PROVE  AccessInv'
<1>1. AccessIsTyped /\ NamesAreOwned /\ NameIsItsOwners /\ applies \in Nat /\ MaxApplies \in Nat
    BY AccessParts, AccessFields, AccessConstants
<1>3. PICK r \in Specs : spec' = [spec EXCEPT ![a] = r] /\ r.generation = applies + 1
  <2>1. PICK ssh, vnc \in BOOLEAN : spec' = [spec EXCEPT ![a] = [ssh |-> ssh, vnc |-> vnc, generation |-> applies + 1]]
      BY DEF Applies
  <2>3. PICK r : r = [ssh |-> ssh, vnc |-> vnc, generation |-> applies + 1]
      OBVIOUS
  <2>4. r \in Specs /\ r.generation = applies + 1
      BY <2>3, <1>1 DEF Specs, Applies, hostVars
  <2> QED
      BY <2>1, <2>3, <2>4
<1>10. MovesAlone(a)
    BY <1>1, <1>3 DEF MovesAlone, AccessIsTyped, Applies, hostVars
<1>11. AccessIsSound(a)'
    BY <1>1, DeclaredAnew, <1>3 DEF AccessIsTyped, Applies, hostVars
<1> QED
    BY <1>10, <1>11, OthersStaySound, <1>1, <1>3 DEF AccessInv, NameIsItsOwners, NamesAreOwned,
       Lives, AccessIsTyped, Applies, hostVars

LEMMA DeletesKeeps ==
    ASSUME AccessInv, NEW a \in Incarnations, Deletes(a)
    PROVE  AccessInv'
<1>6. MovesAlone(a)
    BY AccessParts, AccessFields DEF MovesAlone, AccessIsTyped, Deletes, hostVars
<1> QED
    BY <1>6, OthersStaySound, DeclaredAnew, AccessParts, AccessFields DEF AccessInv,
       GenerationsAreKnown, NamesAreOwned, NameIsItsOwners, Lives, AccessIsTyped, Deletes, hostVars

LEMMA AccessStep == AccessInv /\ [AccessNext]_accessVars => AccessInv'
<1> SUFFICES ASSUME AccessInv, [AccessNext]_accessVars PROVE AccessInv'
    OBVIOUS
<1>1. ASSUME NEW a \in Incarnations, GrantsSsh(a) PROVE AccessInv'
    BY <1>1, VerifyKeeps, LoadsKeeps, ClientFilesKeep, ConfigurationKeeps, ServerFilesKeep, PolicyKeeps,
       AuthorizeKeeps, EnableKeeps, StartKeeps DEF GrantsSsh
<1>2. ASSUME NEW a \in Incarnations, WithdrawsSsh(a) PROVE AccessInv'
    BY <1>2, DisableKeeps, UnitGoes, StateGoes, HostKeyGoes, HostFilesGo, LastConfigurationKeeps DEF WithdrawsSsh
<1>3. ASSUME NEW a \in Incarnations, PassesVnc(a) PROVE AccessInv'
    BY <1>3, ViewerComes, ViewerIsRecorded, ViewerGoes DEF PassesVnc
<1>4. ASSUME NEW a \in Incarnations, Applies(a) \/ Deletes(a) \/ GuestStops(a) \/ ViewerListens(a) PROVE AccessInv'
    BY <1>4, AppliesKeeps, DeletesKeeps, GuestStopsKeeps, ListeningKeeps
<1>5. ASSUME NEW a \in Incarnations, BeginsAccess(a) \/ ReleasesSandbox(a) \/ Finalizes(a) \/ Fails(a) \/ Dropped(a)
      PROVE  AccessInv'
    BY <1>5, BeginsKeeps, ReleaseKeeps, FinalizeKeeps, CutShortKeeps
<1>6. CASE AgentdRestarts
    BY <1>6, RestartKeeps
<1>7. CASE UNCHANGED accessVars
  <2>1. UNCHANGED <<agent, spec, settled, host_key, client, known, config, applied, guest, access_pass,
                    made, applies, release, cut>>
      BY <1>7 DEF accessVars
  <2>3. ASSUME NEW a \in Incarnations PROVE AccessIsSound(a)'
    <3>3. GuestIsInOrder(a)'
        BY <2>1, AccessParts DEF GuestIsInOrder, UnderWay, Lives, At
    <3>5. SshIsAsDeclared(a)' /\ PolicyIsSeen(a)' /\ ViewerIsSeen(a)'
        BY <2>1, AccessParts DEF SshIsAsDeclared, CanBeReached, IsWithdrawn, PolicyIsSeen,
           ViewerIsSeen, ViewerIsOff, IsCurrent, UnderWay, At
    <3> QED
        BY <3>3, <3>5, <2>1, AccessParts DEF AccessIsSound, HostIsInOrder, IsCurrent, UnderWay, At,
           GenerationsAreKnown, PassIsDue, Lives
  <2> QED
      BY <2>3, <2>1, AccessParts DEF AccessInv, AccessIsTyped, NamesAreOwned, NameIsItsOwners, Lives
<1> QED
    BY <1>1, <1>2, <1>3, <1>4, <1>5, <1>6, <1>7 DEF AccessNext

(* What the run checks is what the invariant says of every agent.          *)
LEMMA AccessIsGranted == AccessInv => AccessIsAsGranted
<1> SUFFICES ASSUME AccessInv PROVE AccessIsAsGranted
    OBVIOUS
<1>2. AccessTypeOK
  <2>1. ASSUME NEW a \in Incarnations
        PROVE  /\ guest[a].viewer \in {"inactive", "starting", "listening"}
               /\ guest[a].up => agent[a] \in {"active", "deleting"}
               /\ guest[a].server # Off => guest[a].server.key # NoKey /\ guest[a].server.policy # 0
    <3>1. guest[a].viewer \in {"inactive", "starting", "listening"}
        BY GuestParts, AccessParts
    <3> QED
        BY <3>1, AccessParts DEF GuestIsInOrder, Lives, NoGuest, NewGuest
  <2> QED
      BY <2>1, AccessParts DEF AccessTypeOK, AccessIsTyped
<1>3. ServedKeyIsKnown
    BY AccessParts DEF ServedKeyIsKnown, GuestIsInOrder
<1>4. ReadyIsReachable
    BY AccessParts DEF ReadyIsReachable, SshIsAsDeclared, CanBeReached
<1>6. ServerRunsItsPolicy
    BY AccessParts DEF ServerRunsItsPolicy, NoAccessPass, At, PolicyIsSeen
<1> QED
    BY <1>2, <1>3, <1>4, <1>6, AccessParts DEF AccessIsAsGranted, WithdrawnVncIsOff, ViewerIsSeen,
       ViewerIsOff, WithdrawnSshIsGone, SshIsAsDeclared, IsWithdrawn, HostIsInOrder

(* Who is granted access reaches the sandbox under a key the client knows, *)
(* a withdrawn access is gone, a name is its owner's and a recorded policy *)
(* is the one that runs, however passes fail, are dropped or end with      *)
(* agentd (ssh/mod.rs, vnc/mod.rs and their guest sides).                  *)
THEOREM AccessStaysAsGranted == AccessSpec => []AccessIsAsGranted
<1>1. AccessInit => AccessInv
    BY AccessStarts
<1>2. AccessInv /\ [AccessNext]_accessVars => AccessInv'
    BY AccessStep
<1>3. AccessInv => AccessIsAsGranted
    BY AccessIsGranted
<1> QED
    BY <1>1, <1>2, <1>3, PTL DEF AccessSpec

-----------------------------------------------------------------------------
(* Port forwards and their relays.                                         *)

ConnPlaces == {"new", "waits", "taken", "dials", "relays", "dropped", "done"}
RelayConns == [at : ConnPlaces, own : BOOLEAN, out : Nat, eof : BOOLEAN, taken : Nat,
               reading : {"read", "send", "sendEof", "over"}, hostClosed : BOOLEAN, guestClosed : BOOLEAN,
               written : Nat, flushed : Nat, shut : BOOLEAN, result : {"none", "both", "failed", "gone"}]
GuestMessages == {"data", "eof", "closed"}
GuestSessions == [at : {"none", "open", "closed"}, boot : Nat, got : Nat, gotEof : BOOLEAN,
                  out : Nat, eof : BOOLEAN, inbox : Seq(GuestMessages)]

\* What the host sent, and what the client wrote.
HostHalf(k, s) ==
    /\ s.got <= k.taken /\ k.taken <= k.out
    /\ k.at = "relays" =>
        /\ s.got = IF k.reading = "send" THEN k.taken - 1 ELSE k.taken
        /\ k.reading \in {"sendEof", "over"} => k.eof /\ k.taken = k.out
        /\ k.hostClosed <=> k.reading = "over"
        /\ k.hostClosed => s.gotEof

\* What the guest sent: all data, and at most one end after it.
GuestHalf(k, s) ==
    /\ k.flushed <= k.written /\ k.written <= s.out
    /\ k.at = "relays" =>
        /\ s.inbox = <<>> => k.flushed = k.written
        /\ k.guestClosed => s.inbox = <<>> /\ s.eof /\ k.shut /\ k.flushed = s.out
        /\ ~k.guestClosed /\ ~s.eof =>
            /\ k.written + Len(s.inbox) = s.out
            /\ \A i \in 1..Len(s.inbox) : s.inbox[i] = "data"
        /\ ~k.guestClosed /\ s.eof =>
            /\ s.inbox # <<>> /\ k.written + Len(s.inbox) - 1 = s.out
            /\ s.inbox[Len(s.inbox)] # "data"
            /\ \A i \in 1..(Len(s.inbox) - 1) : s.inbox[i] = "data"

Untouched(k, s) ==
    /\ k.taken = 0 /\ k.reading = "read" /\ ~k.hostClosed /\ ~k.guestClosed /\ k.written = 0
    /\ k.flushed = 0 /\ s = NoSession

IsWhole(k, s) ==
    /\ k.eof /\ s.got = k.out /\ s.gotEof
    /\ s.eof /\ k.flushed = s.out /\ k.shut

Stretch(k, s) ==
    /\ HostHalf(k, s) /\ GuestHalf(k, s)
    /\ k.at \in {"new", "waits", "taken", "dials"} => Untouched(k, s)
    /\ k.at = "relays" => ~(k.hostClosed /\ k.guestClosed)
    /\ k.result # "none" => k.at = "done"
    /\ k.result = "both" => IsWhole(k, s)

LoopInv ==
    /\ boot \in 0..boots /\ boots \in 0..MaxBoots
    /\ boot # 0 => boot = boots
    /\ listens \in BOOLEAN /\ dialer \in 0..boots
    /\ loop \in {"accepts", "dials", "connects", "stopped"}
    /\ taking \in SUBSET Conns /\ shown_failure \in {"none", "failed"}
    /\ taking # {} <=> loop \in {"dials", "connects"}
    /\ loop = "connects" => dialer # 0
    /\ refused \in {0, 1}
    /\ refused = 1 /\ boot # 0 => dialer \in {0, boot}

\* Where a connection may be while the forward is at l, with runtime b of n.
InPlace(k, s, l, b, n) ==
    /\ k.at = "dials" => k.own
    /\ k.at \in {"waits", "taken", "relays"} => k.own \/ l # "stopped"
    /\ k.at = "new" => ~k.own
    /\ s.boot <= n
    /\ s.at = "open" /\ s.boot = b /\ b # 0 => k.at = "relays"

PlacesInv ==
    \A c \in Conns :
        /\ c \in taking => conn[c].at = "taken"
        /\ InPlace(conn[c], session[c], loop, boot, boots)

ConnsInv ==
    /\ conn \in [Conns -> RelayConns] /\ session \in [Conns -> GuestSessions]
    /\ \A c \in Conns : Stretch(conn[c], session[c])
ForwardInv == LoopInv /\ PlacesInv /\ ConnsInv

\* One connection and its session move, and the others keep their places.
LEMMA OneStretchMoves ==
    ASSUME ConnsInv, NEW c \in Conns, NEW k \in RelayConns, NEW s \in GuestSessions, Stretch(k, s),
           conn' = [conn EXCEPT ![c] = k], session' = [session EXCEPT ![c] = s]
    PROVE  ConnsInv'
BY DEF ConnsInv

\* What is known of one connection and its session.
LEMMA StretchOf ==
    ASSUME ConnsInv, NEW c \in Conns
    PROVE  /\ conn[c] \in RelayConns /\ session[c] \in GuestSessions /\ Stretch(conn[c], session[c])
           /\ session = [session EXCEPT ![c] = session[c]]
           /\ conn = [conn EXCEPT ![c] = conn[c]]
BY SMTT(60) DEF ConnsInv

\* A connection that only changes where it is, before it relays or when it is dropped.
LEMMA PlaceMoves ==
    ASSUME NEW k \in RelayConns, NEW s \in GuestSessions, Stretch(k, s),
           NEW at \in {"waits", "taken", "dials", "dropped"}, NEW own \in BOOLEAN,
           k.at \in {"new", "waits", "taken", "dials"} \/ (k.at = "relays" /\ at = "dropped"),
           NEW r, r = [k EXCEPT !.at = at, !.own = own]
    PROVE  r \in RelayConns /\ Stretch(r, s)
BY DEF ConnPlaces, RelayConns, Stretch, HostHalf, Untouched, GuestHalf


\* The client writes one more.
LEMMA WritesMore ==
    ASSUME NEW k \in RelayConns, NEW s \in GuestSessions, Stretch(k, s), k.at # "done", ~k.eof
    PROVE  /\ [k EXCEPT !.out = k.out + 1] \in RelayConns
           /\ Stretch([k EXCEPT !.out = k.out + 1], s)
BY DEF RelayConns, Stretch, HostHalf, GuestHalf, Untouched

\* The client ends its writing.
LEMMA WritesEnd ==
    ASSUME NEW k \in RelayConns, NEW s \in GuestSessions, Stretch(k, s), k.at # "done", ~k.eof
    PROVE  /\ [k EXCEPT !.eof = TRUE] \in RelayConns
           /\ Stretch([k EXCEPT !.eof = TRUE], s)
BY DEF RelayConns, Stretch, HostHalf, GuestHalf, Untouched

\* host_to_guest read a chunk.
LEMMA ReadsChunk ==
    ASSUME NEW k \in RelayConns, NEW s \in GuestSessions, Stretch(k, s), k.at = "relays", k.reading = "read", k.taken < k.out
    PROVE  /\ [k EXCEPT !.reading = "send", !.taken = k.taken + 1] \in RelayConns
           /\ Stretch([k EXCEPT !.reading = "send", !.taken = k.taken + 1], s)
<1> PICK r : r = [k EXCEPT !.reading = "send", !.taken = k.taken + 1]
    OBVIOUS
<1>a. k.taken + 1 \in Nat
    BY SMTT(60) DEF RelayConns
<1>1. HostHalf(r, s)
    BY SMTT(60), <1>a DEF Stretch, HostHalf, RelayConns, GuestSessions, ConnPlaces
<1> QED
    BY ZenonT(60), <1>1, <1>a DEF Stretch, HostHalf, GuestHalf, IsWhole, RelayConns, GuestSessions,
       Untouched, NoSession, ConnPlaces

\* host_to_guest read the end.
LEMMA ReadsEnd ==
    ASSUME NEW k \in RelayConns, NEW s \in GuestSessions, Stretch(k, s), k.at = "relays", k.reading = "read", k.taken = k.out, k.eof
    PROVE  /\ [k EXCEPT !.reading = "sendEof"] \in RelayConns
           /\ Stretch([k EXCEPT !.reading = "sendEof"], s)
BY DEF RelayConns, Stretch, HostHalf, GuestHalf

\* The chunk has reached the guest.
LEMMA SentChunk ==
    ASSUME NEW k \in RelayConns, NEW s \in GuestSessions, Stretch(k, s), k.at = "relays", k.reading = "send"
    PROVE  /\ [k EXCEPT !.reading = "read"] \in RelayConns
           /\ [s EXCEPT !.got = s.got + 1] \in GuestSessions
           /\ Stretch([k EXCEPT !.reading = "read"],
                      [s EXCEPT !.got = s.got + 1])
<1> PICK r : r = [k EXCEPT !.reading = "read"]
    OBVIOUS
<1> PICK q : q = [s EXCEPT !.got = s.got + 1]
    OBVIOUS
<1>a. s.got + 1 \in Nat
    BY SMTT(60) DEF GuestSessions
<1>k. r \in RelayConns
    BY ZenonT(60) DEF RelayConns, ConnPlaces
<1>s. q \in GuestSessions
    BY <1>a, ZenonT(60) DEF GuestSessions
<1>5. r \in RelayConns /\ q \in GuestSessions /\ Stretch(r, q)
    BY <1>k, <1>s, SMTT(60) DEF Stretch, HostHalf, GuestHalf, IsWhole, RelayConns, GuestSessions,
       Untouched, NoSession
<1> QED
    BY <1>5, ZenonT(60)

\* The end has reached the guest.
LEMMA SentEnd ==
    ASSUME NEW k \in RelayConns, NEW s \in GuestSessions, Stretch(k, s), k.at = "relays", k.reading = "sendEof", ~k.guestClosed
    PROVE  /\ [k EXCEPT !.reading = "over", !.hostClosed = TRUE] \in RelayConns
           /\ [s EXCEPT !.gotEof = TRUE] \in GuestSessions
           /\ Stretch([k EXCEPT !.reading = "over", !.hostClosed = TRUE],
                      [s EXCEPT !.gotEof = TRUE])
BY DEF RelayConns, GuestSessions, Stretch, HostHalf, GuestHalf

\* The end has reached a guest that had closed.
LEMMA SentLastEnd ==
    ASSUME NEW k \in RelayConns, NEW s \in GuestSessions, Stretch(k, s), k.at = "relays", k.reading = "sendEof", k.guestClosed
    PROVE  /\ [k EXCEPT !.reading = "over", !.hostClosed = TRUE, !.at = "done", !.result = "both"] \in RelayConns
           /\ [s EXCEPT !.gotEof = TRUE, !.at = "closed"] \in GuestSessions
           /\ Stretch([k EXCEPT !.reading = "over", !.hostClosed = TRUE, !.at = "done", !.result = "both"],
                      [s EXCEPT !.gotEof = TRUE, !.at = "closed"])
BY DEF RelayConns, ConnPlaces, GuestSessions, Stretch, HostHalf, GuestHalf, IsWhole

\* A relay ends early.
LEMMA RelayEnds ==
    ASSUME NEW k \in RelayConns, NEW s \in GuestSessions, Stretch(k, s), k.at = "relays", NEW result \in {"failed", "gone"}, NEW at \in {s.at, "closed"}
    PROVE  /\ [k EXCEPT !.at = "done", !.result = result] \in RelayConns
           /\ [s EXCEPT !.at = at] \in GuestSessions
           /\ Stretch([k EXCEPT !.at = "done", !.result = result],
                      [s EXCEPT !.at = at])
BY DEF RelayConns, ConnPlaces, GuestSessions, Stretch, HostHalf, GuestHalf

\* A relay is dropped.
LEMMA IsDropped ==
    ASSUME NEW k \in RelayConns, NEW s \in GuestSessions, Stretch(k, s), k.at = "relays", NEW at \in {s.at, "closed"}
    PROVE  /\ [k EXCEPT !.at = "dropped"] \in RelayConns
           /\ [s EXCEPT !.at = at] \in GuestSessions
           /\ Stretch([k EXCEPT !.at = "dropped"],
                      [s EXCEPT !.at = at])
BY DEF RelayConns, ConnPlaces, GuestSessions, Stretch, HostHalf, GuestHalf


\* What is left of an inbox once its first message is taken.
LEMMA RestOfInbox ==
    ASSUME NEW x \in Seq(GuestMessages), x # <<>>
    PROVE  /\ Tail(x) \in Seq(GuestMessages) /\ Len(Tail(x)) = Len(x) - 1
           /\ \A i \in 1..(Len(x) - 1) : Tail(x)[i] = x[i + 1]
           /\ Head(x) = x[1]
           /\ Tail(x) = <<>> <=> Len(x) = 1
           /\ Len(x) \in Nat \ {0}
<1>5. Tail(x) = <<>> <=> Len(x) = 1
  <2>2. Len(x) = 1 <=> Len(Tail(x)) = 0
      BY SMTT(60), HeadTailProperties, EmptySeq
  <2> QED
      BY <2>2, ZenonT(60), EmptySeq, HeadTailProperties
<1> QED
    BY <1>5, SMTT(60), HeadTailProperties, EmptySeq DEF Head

\* An end that is first and last of the inbox is all of it.
LEMMA EndIsAlone ==
    ASSUME NEW x \in Seq(GuestMessages), x # <<>>, x[1] # "data",
           \A i \in 1..(Len(x) - 1) : x[i] = "data"
    PROVE  Len(x) = 1
<1>1. PICK n \in Nat \ {0} : n = Len(x)
    BY EmptySeq
<1>2. n # 1 => 1 \in 1..(n - 1)
    BY SMTT(60)
<1> QED
    BY <1>1, <1>2, ZenonT(60)

\* The guest sends a chunk.
LEMMA GuestSendsData ==
    ASSUME NEW k \in RelayConns, NEW s \in GuestSessions, Stretch(k, s), s.at = "open", ~s.eof
    PROVE  /\ [s EXCEPT !.out = s.out + 1, !.inbox = Append(s.inbox, "data")] \in GuestSessions
           /\ Stretch(k, [s EXCEPT !.out = s.out + 1, !.inbox = Append(s.inbox, "data")])
<1> PICK q : q = [s EXCEPT !.out = s.out + 1, !.inbox = Append(s.inbox, "data")]
    OBVIOUS
<1>0. /\ Append(s.inbox, "data") \in Seq(GuestMessages) /\ Len(Append(s.inbox, "data")) = Len(s.inbox) + 1
      /\ \A i \in 1..Len(s.inbox) : Append(s.inbox, "data")[i] = s.inbox[i]
      /\ Append(s.inbox, "data")[Len(s.inbox) + 1] = "data" /\ Append(s.inbox, "data") # <<>>
    BY DEF GuestSessions, GuestMessages
<1>a. s.out + 1 \in Nat
    BY SMTT(60) DEF GuestSessions
<1>2. GuestHalf(k, q)
    BY <1>0, SMTT(60), <1>a, LenProperties DEF Stretch, GuestHalf, RelayConns, GuestSessions
<1>3. k.at \in {"new", "waits", "taken", "dials"} => Untouched(k, q)
    BY <1>0, SMTT(60), <1>a, LenProperties DEF Stretch, Untouched, NoSession, GuestSessions
<1> QED
    BY ZenonT(60), <1>2, <1>3, <1>0, <1>a, LenProperties DEF Stretch, HostHalf, GuestHalf, IsWhole,
       RelayConns, GuestSessions

\* The guest ends its writing.
LEMMA GuestSendsEnd ==
    ASSUME NEW k \in RelayConns, NEW s \in GuestSessions, Stretch(k, s), s.at = "open", ~s.eof
    PROVE  /\ [s EXCEPT !.eof = TRUE, !.inbox = Append(s.inbox, "eof")] \in GuestSessions
           /\ Stretch(k, [s EXCEPT !.eof = TRUE, !.inbox = Append(s.inbox, "eof")])
<1> PICK q : q = [s EXCEPT !.eof = TRUE, !.inbox = Append(s.inbox, "eof")]
    OBVIOUS
<1>0. /\ Append(s.inbox, "eof") \in Seq(GuestMessages) /\ Len(Append(s.inbox, "eof")) = Len(s.inbox) + 1
      /\ \A i \in 1..Len(s.inbox) : Append(s.inbox, "eof")[i] = s.inbox[i]
      /\ Append(s.inbox, "eof")[Len(s.inbox) + 1] = "eof" /\ Append(s.inbox, "eof") # <<>>
    BY DEF GuestSessions, GuestMessages
<1>2. GuestHalf(k, q)
    BY <1>0, SMTT(60), LenProperties DEF Stretch, GuestHalf, RelayConns, GuestSessions
<1>3. k.at \in {"new", "waits", "taken", "dials"} => Untouched(k, q)
    BY <1>0, SMTT(60), LenProperties DEF Stretch, Untouched, NoSession, GuestSessions
<1> QED
    BY ZenonT(60), <1>2, <1>3, <1>0, LenProperties DEF Stretch, HostHalf, GuestHalf, IsWhole,
       RelayConns, GuestSessions

\* The guest closes both ways.
LEMMA GuestCloses ==
    ASSUME NEW k \in RelayConns, NEW s \in GuestSessions, Stretch(k, s), s.at = "open", ~s.eof
    PROVE  /\ [s EXCEPT !.eof = TRUE, !.at = "closed", !.inbox = Append(s.inbox, "closed")] \in GuestSessions
           /\ Stretch(k, [s EXCEPT !.eof = TRUE, !.at = "closed", !.inbox = Append(s.inbox, "closed")])
<1> PICK q : q = [s EXCEPT !.eof = TRUE, !.at = "closed", !.inbox = Append(s.inbox, "closed")]
    OBVIOUS
<1>0. /\ Append(s.inbox, "closed") \in Seq(GuestMessages) /\ Len(Append(s.inbox, "closed")) = Len(s.inbox) + 1
      /\ \A i \in 1..Len(s.inbox) : Append(s.inbox, "closed")[i] = s.inbox[i]
      /\ Append(s.inbox, "closed")[Len(s.inbox) + 1] = "closed" /\ Append(s.inbox, "closed") # <<>>
    BY DEF GuestSessions, GuestMessages
<1>2. GuestHalf(k, q)
    BY <1>0, SMTT(60), LenProperties DEF Stretch, GuestHalf, RelayConns, GuestSessions
<1>3. k.at \in {"new", "waits", "taken", "dials"} => Untouched(k, q)
    BY <1>0, SMTT(60), LenProperties DEF Stretch, Untouched, NoSession, GuestSessions
<1> QED
    BY ZenonT(60), <1>2, <1>3, <1>0, LenProperties DEF Stretch, HostHalf, GuestHalf, IsWhole,
       RelayConns, GuestSessions

\* guest_to_host hands a chunk over.
LEMMA TakesData ==
    ASSUME NEW k \in RelayConns, NEW s \in GuestSessions, Stretch(k, s), k.at = "relays", s.inbox # <<>>, Head(s.inbox) = "data", NEW flushed \in Nat, flushed = IF Len(s.inbox) = 1 THEN k.written + 1 ELSE k.flushed
    PROVE  /\ [k EXCEPT !.written = k.written + 1, !.flushed = flushed] \in RelayConns
           /\ [s EXCEPT !.inbox = Tail(s.inbox)] \in GuestSessions
           /\ Stretch([k EXCEPT !.written = k.written + 1, !.flushed = flushed],
                      [s EXCEPT !.inbox = Tail(s.inbox)])
<1> PICK r : r = [k EXCEPT !.written = k.written + 1, !.flushed = flushed]
    OBVIOUS
<1> PICK q : q = [s EXCEPT !.inbox = Tail(s.inbox)]
    OBVIOUS
<1>0. /\ Tail(s.inbox) \in Seq(GuestMessages) /\ Len(Tail(s.inbox)) = Len(s.inbox) - 1
      /\ \A i \in 1..(Len(s.inbox) - 1) : Tail(s.inbox)[i] = s.inbox[i + 1]
      /\ Head(s.inbox) = s.inbox[1]
      /\ Tail(s.inbox) = <<>> <=> Len(s.inbox) = 1
      /\ Len(s.inbox) \in Nat \ {0}
    BY RestOfInbox, ZenonT(60) DEF GuestSessions
<1>a. k.written + 1 \in Nat
    BY SMTT(60) DEF RelayConns
<1>k. r \in RelayConns
    BY <1>a, ZenonT(60) DEF RelayConns, ConnPlaces
<1>s. q \in GuestSessions
    BY <1>0, ZenonT(60) DEF GuestSessions
<1>2. GuestHalf(r, q)
  <2>4. CASE ~s.eof
    <3>1. k.written + Len(s.inbox) = s.out /\ \A i \in 1..Len(s.inbox) : s.inbox[i] = "data"
        BY <2>4, ZenonT(60) DEF Stretch, GuestHalf
    <3>2. \A i \in 1..Len(q.inbox) : q.inbox[i] = "data"
        BY <3>1, <1>0, SMTT(60) DEF GuestSessions
    <3>3. r.written + Len(q.inbox) = q.out /\ r.written <= q.out /\ r.flushed <= r.written
        BY <3>1, <1>0, SMTT(60) DEF RelayConns, GuestSessions, Stretch, GuestHalf
    <3> QED
        BY <3>2, <3>3, ZenonT(60), <2>4, <1>0 DEF GuestHalf, Stretch, GuestSessions, RelayConns
  <2>5. CASE s.eof
    <3>1. /\ k.written + Len(s.inbox) - 1 = s.out /\ s.inbox[Len(s.inbox)] # "data"
          /\ \A i \in 1..(Len(s.inbox) - 1) : s.inbox[i] = "data"
        BY <2>5, ZenonT(60) DEF Stretch, GuestHalf
    <3>3. /\ q.inbox # <<>> /\ Len(q.inbox) = Len(s.inbox) - 1 /\ Len(q.inbox) \in 1..(Len(s.inbox) - 1)
        BY <1>0, SMTT(60), <3>1 DEF GuestSessions
    <3>4. q.inbox[Len(q.inbox)] # "data"
        BY <3>1
    <3>5. \A i \in 1..(Len(q.inbox) - 1) : q.inbox[i] = "data"
      <4> TAKE i \in 1..(Len(q.inbox) - 1)
      <4>1. i \in 1..(Len(s.inbox) - 1) /\ i + 1 \in 1..(Len(s.inbox) - 1)
          BY <3>3, SMTT(60), <1>0
      <4> QED
          BY <4>1, <3>1, <1>0, ZenonT(60) DEF GuestSessions
    <3>6. r.written + Len(q.inbox) - 1 = q.out /\ r.written <= q.out /\ r.flushed <= r.written
        BY <3>1, <3>3, SMTT(60), <1>0 DEF RelayConns, GuestSessions, Stretch, GuestHalf
    <3> QED
        BY <3>3, <3>4, <3>5, <3>6, ZenonT(60), <2>5 DEF GuestHalf, Stretch, GuestSessions,
           RelayConns
  <2> QED
      BY <2>4, <2>5
<1>3. r.at \in {"new", "waits", "taken", "dials"} => Untouched(r, q)
    BY <1>k, <1>s, <1>0, SMTT(60) DEF Stretch, Untouched, NoSession, GuestSessions, RelayConns
<1>5. r \in RelayConns /\ q \in GuestSessions /\ Stretch(r, q)
    BY <1>k, <1>s, <1>2, <1>3, SMTT(60), <1>0 DEF Stretch, HostHalf, GuestHalf, IsWhole, RelayConns,
       GuestSessions
<1> QED
    BY <1>5, ZenonT(60)

\* The guest has ended its writing, and the relay goes on.
LEMMA TakesEnd ==
    ASSUME NEW k \in RelayConns, NEW s \in GuestSessions, Stretch(k, s), k.at = "relays", s.inbox # <<>>, Head(s.inbox) = "eof", ~k.hostClosed
    PROVE  /\ [k EXCEPT !.guestClosed = TRUE, !.shut = TRUE, !.flushed = k.written] \in RelayConns
           /\ [s EXCEPT !.inbox = Tail(s.inbox)] \in GuestSessions
           /\ Stretch([k EXCEPT !.guestClosed = TRUE, !.shut = TRUE, !.flushed = k.written],
                      [s EXCEPT !.inbox = Tail(s.inbox)])
<1> PICK r : r = [k EXCEPT !.guestClosed = TRUE, !.shut = TRUE, !.flushed = k.written]
    OBVIOUS
<1> PICK q : q = [s EXCEPT !.inbox = Tail(s.inbox)]
    OBVIOUS
<1>c. s.eof /\ ~k.guestClosed /\ Len(s.inbox) = 1 /\ k.written = s.out
  <2>2. 1 \in 1..Len(s.inbox) /\ s.inbox[1] = "eof" /\ s.inbox[1] # "data"
      BY SMTT(60), RestOfInbox DEF GuestSessions
  <2>3. s.eof
      BY DEF Stretch, GuestHalf
  <2> QED
      BY <2>3, <2>2, EndIsAlone DEF RelayConns, GuestSessions, Stretch, GuestHalf
<1>k. r \in RelayConns
    BY ZenonT(60) DEF RelayConns, ConnPlaces
<1>s. q \in GuestSessions
    BY ZenonT(60), RestOfInbox DEF GuestSessions
<1>1. HostHalf(r, q)
    BY <1>k, <1>s, <1>c, SMTT(60), RestOfInbox DEF Stretch, HostHalf, RelayConns, GuestSessions
<1>2. GuestHalf(r, q)
    BY <1>k, <1>s, <1>c, SMTT(60), RestOfInbox DEF Stretch, GuestHalf, RelayConns, GuestSessions
<1>3. r.at \in {"new", "waits", "taken", "dials"} => Untouched(r, q)
    BY <1>k, <1>s, <1>c, SMTT(60), RestOfInbox DEF Stretch, Untouched, NoSession, GuestSessions,
       RelayConns
<1>4. r.result = "both" => IsWhole(r, q)
    BY <1>k, <1>s, <1>c, SMTT(60), RestOfInbox DEF Stretch, HostHalf, GuestHalf, IsWhole,
       RelayConns, GuestSessions
<1>5. r \in RelayConns /\ q \in GuestSessions /\ Stretch(r, q)
    BY <1>k, <1>s, <1>1, <1>2, <1>3, <1>4, SMTT(60) DEF Stretch, GuestSessions, RelayConns
<1> QED
    BY <1>5, ZenonT(60)

\* The guest has ended its writing after the client did.
LEMMA TakesLastEnd ==
    ASSUME NEW k \in RelayConns, NEW s \in GuestSessions, Stretch(k, s), k.at = "relays", s.inbox # <<>>, Head(s.inbox) = "eof", k.hostClosed, NEW at \in {s.at, "closed"}
    PROVE  /\ [k EXCEPT !.guestClosed = TRUE, !.shut = TRUE, !.flushed = k.written, !.at = "done", !.result = "both"] \in RelayConns
           /\ [s EXCEPT !.at = at] \in GuestSessions
           /\ Stretch([k EXCEPT !.guestClosed = TRUE, !.shut = TRUE, !.flushed = k.written, !.at = "done", !.result = "both"],
                      [s EXCEPT !.at = at])
<1> PICK r : r = [k EXCEPT !.guestClosed = TRUE, !.shut = TRUE, !.flushed = k.written, !.at = "done", !.result = "both"]
    OBVIOUS
<1> PICK q : q = [s EXCEPT !.at = at]
    OBVIOUS
<1>c. s.eof /\ ~k.guestClosed /\ Len(s.inbox) = 1 /\ k.written = s.out
  <2>2. 1 \in 1..Len(s.inbox) /\ s.inbox[1] = "eof" /\ s.inbox[1] # "data"
      BY SMTT(60), RestOfInbox DEF GuestSessions
  <2> QED
      BY <2>2, EndIsAlone DEF RelayConns, GuestSessions, Stretch, GuestHalf
<1>k. r \in RelayConns
    BY ZenonT(60) DEF RelayConns, ConnPlaces
<1>1. HostHalf(r, q)
    BY <1>k, <1>c, SMTT(60), RestOfInbox DEF Stretch, HostHalf, RelayConns, GuestSessions
<1>2. GuestHalf(r, q)
    BY <1>k, <1>c, SMTT(60), RestOfInbox DEF Stretch, GuestHalf, RelayConns, GuestSessions
<1>3. r.at \in {"new", "waits", "taken", "dials"} => Untouched(r, q)
    BY <1>k, <1>c, SMTT(60), RestOfInbox DEF Stretch, Untouched, NoSession, GuestSessions,
       RelayConns
<1>4. r.result = "both" => IsWhole(r, q)
    BY <1>k, <1>c, SMTT(60), RestOfInbox DEF Stretch, HostHalf, GuestHalf, IsWhole, RelayConns,
       GuestSessions
<1>5. r \in RelayConns /\ q \in GuestSessions /\ Stretch(r, q)
    BY <1>k, <1>1, <1>2, <1>3, <1>4, SMTT(60) DEF Stretch, GuestSessions, RelayConns
<1> QED
    BY <1>5, ZenonT(60)

\* The session a connect opens.
LEMMA FreshSession ==
    ASSUME NEW b \in Nat, NEW q, q = [NoSession EXCEPT !.at = "open", !.boot = b]
    PROVE  /\ q \in GuestSessions /\ q.at = "open" /\ q.boot = b
           /\ q.got = 0 /\ q.out = 0 /\ q.inbox = <<>> /\ ~q.eof
BY EmptySeq DEF NoSession, GuestSessions

\* A relay begins with a session of the boot that runs.
LEMMA RelayBegins ==
    ASSUME NEW k \in RelayConns, NEW s \in GuestSessions, Stretch(k, s), k.at \in {"taken", "dials"}, NEW b \in Nat,
           NEW r, r = [k EXCEPT !.at = "relays"], NEW q, q = [NoSession EXCEPT !.at = "open", !.boot = b]
    PROVE  r \in RelayConns /\ q \in GuestSessions /\ Stretch(r, q)
<1>t. q \in GuestSessions /\ q.got = 0 /\ q.out = 0 /\ q.inbox = <<>>
    BY FreshSession, ZenonT(60)
<1>u. ~q.eof
    BY FreshSession, ZenonT(60)
<1> QED
    BY <1>t, SMTT(60), <1>u, EmptySeq DEF Stretch, GuestHalf, HostHalf, RelayConns, Untouched,
       ConnPlaces


\* One connection takes another place, and the others keep theirs.
LEMMA OnePlaceMoves ==
    ASSUME PlacesInv, ConnsInv, NEW c \in Conns, NEW k \in RelayConns, NEW s \in GuestSessions,
           conn' = [conn EXCEPT ![c] = k], session' = [session EXCEPT ![c] = s],
           boot' = boot, boots' = boots, taking' \subseteq taking \cup {c}, loop' = loop \/ loop' # "stopped",
           c \in taking' => k.at = "taken", InPlace(k, s, loop', boot, boots)
    PROVE  PlacesInv'
BY DEF PlacesInv, ConnsInv, InPlace

\* A relay stays in its place while it relays, and when it ends.
LEMMA StaysInPlace ==
    ASSUME NEW l, NEW b, NEW n, NEW k, NEW s, InPlace(k, s, l, b, n), NEW r, NEW q, r.own = k.own, q.boot = s.boot,
           \/ r.at = k.at /\ (q.at = s.at \/ q.at = "closed")
           \/ r.at \in {"dropped", "done"} /\ ((q.at = s.at /\ ~(s.boot = b /\ b # 0)) \/ q.at # "open")
    PROVE  InPlace(r, q, l, b, n)
BY ZenonT(60) DEF InPlace

\* ClientWrites keeps the places and the counts.
LEMMA ClientWritesStep ==
    ASSUME ForwardInv, NEW c \in Conns, ClientWrites(c)
    PROVE  PlacesInv' /\ ConnsInv'
<1>0. PICK k, s : k = conn[c] /\ s = session[c]
    OBVIOUS
<1>1. /\ k \in RelayConns /\ s \in GuestSessions /\ Stretch(k, s)
      /\ session = [session EXCEPT ![c] = s] /\ conn = [conn EXCEPT ![c] = k]
      /\ PlacesInv /\ ConnsInv /\ InPlace(k, s, loop, boot, boots) /\ (c \in taking => k.at = "taken")
    BY <1>0, StretchOf, ZenonT(60) DEF ForwardInv, PlacesInv
<1>2. boot' = boot /\ boots' = boots /\ loop' = loop /\ taking' = taking
    BY DEF ClientWrites, Put
<1>3. CASE conn' = [conn EXCEPT ![c] = [k EXCEPT !.out = k.out + 1]]
  <2> PICK r : r = [k EXCEPT !.out = k.out + 1]
      OBVIOUS
  <2>1. /\ conn' = [conn EXCEPT ![c] = r] /\ session' = [session EXCEPT ![c] = s]
      BY <1>3, <1>0, <1>1, SMTT(60) DEF ClientWrites, Put
  <2>2. k.at # "done" /\ ~k.eof
      BY <1>3, <1>0, <1>1, ZenonT(60) DEF ClientWrites, Put
  <2>5. InPlace(r, s, loop, boot, boots)
      BY <1>1, <2>2, StaysInPlace, ZenonT(60) DEF RelayConns, GuestSessions
  <2> QED
      BY <1>1, <1>2, <2>1, <2>5, OneStretchMoves, OnePlaceMoves, ZenonT(60), <2>2, WritesMore DEF
         RelayConns, GuestSessions
<1>4. CASE conn' = [conn EXCEPT ![c] = [k EXCEPT !.eof = TRUE]]
  <2> PICK r : r = [k EXCEPT !.eof = TRUE]
      OBVIOUS
  <2>1. /\ conn' = [conn EXCEPT ![c] = r] /\ session' = [session EXCEPT ![c] = s]
      BY <1>4, <1>0, <1>1, SMTT(60) DEF ClientWrites, Put
  <2>2. k.at # "done" /\ ~k.eof
      BY <1>4, <1>0, <1>1, ZenonT(60) DEF ClientWrites, Put
  <2> QED
      BY <1>1, <1>2, <2>1, OneStretchMoves, OnePlaceMoves, ZenonT(60), <2>2, StaysInPlace, WritesEnd
         DEF RelayConns, GuestSessions
<1> QED
    BY <1>3, <1>4, <1>0, ZenonT(60) DEF ClientWrites, Put

\* ServerSends keeps them.
LEMMA ServerSendsStep ==
    ASSUME ForwardInv, NEW c \in Conns, ServerSends(c)
    PROVE  PlacesInv' /\ ConnsInv'
<1>0. PICK k, s : k = conn[c] /\ s = session[c]
    OBVIOUS
<1>1. /\ k \in RelayConns /\ s \in GuestSessions /\ Stretch(k, s)
      /\ session = [session EXCEPT ![c] = s] /\ conn = [conn EXCEPT ![c] = k]
      /\ PlacesInv /\ ConnsInv /\ InPlace(k, s, loop, boot, boots) /\ (c \in taking => k.at = "taken")
    BY <1>0, StretchOf, ZenonT(60) DEF ForwardInv, PlacesInv
<1>2. boot' = boot /\ boots' = boots /\ loop' = loop /\ taking' = taking
    BY DEF ServerSends, PutSession
<1>3. CASE PutSession(c, [session[c] EXCEPT !.out = @ + 1, !.inbox = Append(@, "data")])
  <2> PICK q : q = [s EXCEPT !.out = s.out + 1, !.inbox = Append(s.inbox, "data")]
      OBVIOUS
  <2>1. /\ conn' = [conn EXCEPT ![c] = k] /\ session' = [session EXCEPT ![c] = q]
      BY <1>3, <1>0, <1>1, SMTT(60) DEF ServerSends, PutSession
  <2>2. s.at = "open" /\ ~s.eof
      BY <1>3, <1>0, <1>1, ZenonT(60) DEF ServerSends, PutSession
  <2>5. InPlace(k, q, loop, boot, boots)
      BY <1>1, <2>2, StaysInPlace, ZenonT(60) DEF RelayConns, GuestSessions
  <2> QED
      BY <1>1, <1>2, <2>1, <2>5, OneStretchMoves, OnePlaceMoves, ZenonT(60), <2>2, GuestSendsData
         DEF RelayConns, GuestSessions
<1>4. CASE PutSession(c, [session[c] EXCEPT !.eof = TRUE, !.inbox = Append(@, "eof")])
  <2> PICK q : q = [s EXCEPT !.eof = TRUE, !.inbox = Append(s.inbox, "eof")]
      OBVIOUS
  <2>1. /\ conn' = [conn EXCEPT ![c] = k] /\ session' = [session EXCEPT ![c] = q]
      BY <1>4, <1>0, <1>1, SMTT(60) DEF ServerSends, PutSession
  <2>2. s.at = "open" /\ ~s.eof
      BY <1>4, <1>0, <1>1, ZenonT(60) DEF ServerSends, PutSession
  <2>5. InPlace(k, q, loop, boot, boots)
      BY <1>1, <2>2, StaysInPlace, ZenonT(60) DEF RelayConns, GuestSessions
  <2> QED
      BY <1>1, <1>2, <2>1, <2>5, OneStretchMoves, OnePlaceMoves, ZenonT(60), <2>2, GuestSendsEnd DEF
         RelayConns, GuestSessions
<1>5. CASE PutSession(c, [session[c] EXCEPT !.eof = TRUE, !.at = "closed", !.inbox = Append(@, "closed")])
  <2> PICK q : q = [s EXCEPT !.eof = TRUE, !.at = "closed", !.inbox = Append(s.inbox, "closed")]
      OBVIOUS
  <2>1. /\ conn' = [conn EXCEPT ![c] = k] /\ session' = [session EXCEPT ![c] = q]
      BY <1>5, <1>0, <1>1, SMTT(60) DEF ServerSends, PutSession
  <2>2. s.at = "open" /\ ~s.eof
      BY <1>5, <1>0, <1>1, ZenonT(60) DEF ServerSends, PutSession
  <2>5. InPlace(k, q, loop, boot, boots)
      BY <1>1, <2>2, StaysInPlace, ZenonT(60) DEF RelayConns, GuestSessions
  <2> QED
      BY <1>1, <1>2, <2>1, <2>5, OneStretchMoves, OnePlaceMoves, ZenonT(60), <2>2, GuestCloses DEF
         RelayConns, GuestSessions
<1> QED
    BY <1>3, <1>4, <1>5, <1>0, ZenonT(60) DEF ServerSends, PutSession

\* host_to_guest reads.
LEMMA HostReadStep ==
    ASSUME ForwardInv, NEW c \in Conns, HostRead(c)
    PROVE  PlacesInv' /\ ConnsInv'
<1>0. PICK k, s : k = conn[c] /\ s = session[c]
    OBVIOUS
<1>1. /\ k \in RelayConns /\ s \in GuestSessions /\ Stretch(k, s)
      /\ session = [session EXCEPT ![c] = s] /\ conn = [conn EXCEPT ![c] = k]
      /\ PlacesInv /\ ConnsInv /\ InPlace(k, s, loop, boot, boots) /\ (c \in taking => k.at = "taken")
    BY <1>0, StretchOf, ZenonT(60) DEF ForwardInv, PlacesInv
<1>2. boot' = boot /\ boots' = boots /\ loop' = loop /\ taking' = taking
    BY DEF HostRead, GoesOn, Put, Relaying
<1>3. CASE conn[c].taken < conn[c].out /\ GoesOn(c, [conn[c] EXCEPT !.reading = "send", !.taken = @ + 1])
  <2> PICK r : r = [k EXCEPT !.reading = "send", !.taken = k.taken + 1]
      OBVIOUS
  <2>1. /\ conn' = [conn EXCEPT ![c] = r] /\ session' = [session EXCEPT ![c] = s]
      BY <1>3, <1>0, <1>1, SMTT(60) DEF HostRead, GoesOn, Put, Relaying
  <2>2. k.at = "relays" /\ k.reading = "read" /\ k.taken < k.out
      BY <1>3, <1>0, <1>1, ZenonT(60) DEF HostRead, GoesOn, Put, Relaying
  <2>5. InPlace(r, s, loop, boot, boots)
      BY <1>1, <2>2, StaysInPlace, ZenonT(60) DEF RelayConns, GuestSessions
  <2> QED
      BY <1>1, <1>2, <2>1, <2>5, OneStretchMoves, OnePlaceMoves, ZenonT(60), <2>2, ReadsChunk DEF
         RelayConns, GuestSessions
<1>4. CASE conn[c].taken = conn[c].out /\ conn[c].eof /\ GoesOn(c, [conn[c] EXCEPT !.reading = "sendEof"])
  <2> PICK r : r = [k EXCEPT !.reading = "sendEof"]
      OBVIOUS
  <2>1. /\ conn' = [conn EXCEPT ![c] = r] /\ session' = [session EXCEPT ![c] = s]
      BY <1>4, <1>0, <1>1, SMTT(60) DEF HostRead, GoesOn, Put, Relaying
  <2>2. k.at = "relays" /\ k.reading = "read" /\ k.taken = k.out /\ k.eof
      BY <1>4, <1>0, <1>1, ZenonT(60) DEF HostRead, GoesOn, Put, Relaying
  <2> QED
      BY <1>1, <1>2, <2>1, OneStretchMoves, OnePlaceMoves, ZenonT(60), <2>2, StaysInPlace, ReadsEnd
         DEF RelayConns, GuestSessions
<1> QED
    BY <1>3, <1>4, <1>0, ZenonT(60) DEF HostRead, GoesOn, Put, Relaying

\* host_to_guest has sent a chunk.
LEMMA HostSentStep ==
    ASSUME ForwardInv, NEW c \in Conns, HostSent(c)
    PROVE  PlacesInv' /\ ConnsInv'
<1>0. PICK k, s : k = conn[c] /\ s = session[c]
    OBVIOUS
<1>1. /\ k \in RelayConns /\ s \in GuestSessions /\ Stretch(k, s)
      /\ session = [session EXCEPT ![c] = s] /\ conn = [conn EXCEPT ![c] = k]
      /\ PlacesInv /\ ConnsInv /\ InPlace(k, s, loop, boot, boots) /\ (c \in taking => k.at = "taken")
    BY <1>0, StretchOf, ZenonT(60) DEF ForwardInv, PlacesInv
<1>2. boot' = boot /\ boots' = boots /\ loop' = loop /\ taking' = taking
    BY DEF HostSent, GoesOn, Put, Relaying
<1>3. CASE TRUE
  <2> PICK r : r = [k EXCEPT !.reading = "read"]
      OBVIOUS
  <2> PICK q : q = [s EXCEPT !.got = s.got + 1]
      OBVIOUS
  <2>1. /\ conn' = [conn EXCEPT ![c] = r] /\ session' = [session EXCEPT ![c] = q]
      BY <1>3, <1>0, <1>1, SMTT(60) DEF HostSent, GoesOn, Put, Relaying
  <2>2. k.at = "relays" /\ k.reading = "send"
      BY <1>3, <1>0, <1>1, ZenonT(60) DEF HostSent, GoesOn, Put, Relaying
  <2>5. InPlace(r, q, loop, boot, boots)
      BY <1>1, <2>2, StaysInPlace, ZenonT(60) DEF RelayConns, GuestSessions
  <2> QED
      BY <1>1, <1>2, <2>1, <2>5, OneStretchMoves, OnePlaceMoves, ZenonT(60), <2>2, SentChunk DEF
         RelayConns, GuestSessions
<1> QED
    BY <1>3, <1>0, ZenonT(60) DEF HostSent, GoesOn, Put, Relaying

\* host_to_guest has sent the end.
LEMMA HostSentEofStep ==
    ASSUME ForwardInv, NEW c \in Conns, HostSentEof(c)
    PROVE  PlacesInv' /\ ConnsInv'
<1>0. PICK k, s : k = conn[c] /\ s = session[c]
    OBVIOUS
<1>1. /\ k \in RelayConns /\ s \in GuestSessions /\ Stretch(k, s)
      /\ session = [session EXCEPT ![c] = s] /\ conn = [conn EXCEPT ![c] = k]
      /\ PlacesInv /\ ConnsInv /\ InPlace(k, s, loop, boot, boots) /\ (c \in taking => k.at = "taken")
    BY <1>0, StretchOf, ZenonT(60) DEF ForwardInv, PlacesInv
<1>2. boot' = boot /\ boots' = boots /\ loop' = loop /\ taking' = taking
    BY DEF HostSentEof, GoesOn, Put, PutSession, Relaying
<1>3. CASE ~conn[c].guestClosed
  <2> PICK r : r = [k EXCEPT !.reading = "over", !.hostClosed = TRUE]
      OBVIOUS
  <2> PICK q : q = [s EXCEPT !.gotEof = TRUE]
      OBVIOUS
  <2>1. /\ conn' = [conn EXCEPT ![c] = r] /\ session' = [session EXCEPT ![c] = q]
      BY <1>3, <1>0, <1>1, SMTT(60) DEF HostSentEof, GoesOn, Put, PutSession, Relaying
  <2>2. k.at = "relays" /\ k.reading = "sendEof" /\ ~k.guestClosed
      BY <1>3, <1>0, <1>1, ZenonT(60) DEF HostSentEof, GoesOn, Put, PutSession, Relaying
  <2>5. InPlace(r, q, loop, boot, boots)
      BY <1>1, <2>2, StaysInPlace, ZenonT(60) DEF RelayConns, GuestSessions
  <2> QED
      BY <1>1, <1>2, <2>1, <2>5, OneStretchMoves, OnePlaceMoves, ZenonT(60), <2>2, SentEnd DEF
         RelayConns, GuestSessions
<1>4. CASE conn[c].guestClosed
  <2> PICK r : r = [k EXCEPT !.reading = "over", !.hostClosed = TRUE, !.at = "done", !.result = "both"]
      OBVIOUS
  <2> PICK q : q = [s EXCEPT !.gotEof = TRUE, !.at = "closed"]
      OBVIOUS
  <2>2. k.at = "relays" /\ k.reading = "sendEof" /\ k.guestClosed
      BY <1>4, <1>0, <1>1, ZenonT(60) DEF HostSentEof, GoesOn, Put, PutSession, Relaying
  <2>4. r.own = k.own /\ r.at = "done" /\ q.boot = s.boot /\ q.at = "closed"
      BY <1>1, ZenonT(60) DEF RelayConns, GuestSessions
  <2>5. InPlace(r, q, loop, boot, boots)
      BY <1>1, <2>2, <2>4, StaysInPlace, ZenonT(60)
  <2> QED
      BY <1>1, <1>2, <2>5, OneStretchMoves, OnePlaceMoves, ZenonT(60), <2>2, <2>4, SentLastEnd,
         <1>4, <1>0 DEF HostSentEof, GoesOn, Put, PutSession, Relaying
<1> QED
    BY <1>3, <1>4, <1>0, ZenonT(60) DEF HostSentEof, GoesOn, Put, PutSession, Relaying

\* guest_to_host hands a chunk over.
LEMMA GuestDataStep ==
    ASSUME ForwardInv, NEW c \in Conns, GuestData(c)
    PROVE  PlacesInv' /\ ConnsInv'
<1>0. PICK k, s : k = conn[c] /\ s = session[c]
    OBVIOUS
<1>1. /\ k \in RelayConns /\ s \in GuestSessions /\ Stretch(k, s)
      /\ session = [session EXCEPT ![c] = s] /\ conn = [conn EXCEPT ![c] = k]
      /\ PlacesInv /\ ConnsInv /\ InPlace(k, s, loop, boot, boots) /\ (c \in taking => k.at = "taken")
    BY <1>0, StretchOf, ZenonT(60) DEF ForwardInv, PlacesInv
<1>b. PICK flushed : flushed = IF Len(s.inbox) = 1 THEN k.written + 1 ELSE k.flushed
    OBVIOUS
<1>a. flushed \in Nat /\ flushed = IF Len(s.inbox) = 1 THEN k.written + 1 ELSE k.flushed
    BY <1>b, SMTT(60), <1>1 DEF RelayConns
<1>3. CASE TRUE
  <2> PICK r : r = [k EXCEPT !.written = k.written + 1, !.flushed = flushed]
      OBVIOUS
  <2> PICK q : q = [s EXCEPT !.inbox = Tail(s.inbox)]
      OBVIOUS
  <2>1. /\ conn' = [conn EXCEPT ![c] = r] /\ session' = [session EXCEPT ![c] = q]
      BY <1>3, <1>0, <1>1, <1>b, SMTT(60) DEF GuestData, GoesOn, Put, Relaying, Rest
  <2>2. k.at = "relays" /\ s.inbox # <<>> /\ Head(s.inbox) = "data"
      BY <1>3, <1>0, <1>1, ZenonT(60) DEF GuestData, GoesOn, Put, Relaying, Rest
  <2>3. /\ r \in RelayConns /\ q \in GuestSessions /\ Stretch(r, q)
      BY <2>2, <1>a, TakesData, ZenonT(60), <1>1
  <2>4. r.own = k.own /\ r.at = k.at /\ q.boot = s.boot /\ q.at = s.at
      BY <1>1, ZenonT(60) DEF RelayConns, GuestSessions
  <2>5. InPlace(r, q, loop, boot, boots)
      BY <1>1, <2>2, <2>4, <1>a, StaysInPlace, ZenonT(60)
  <2> QED
      BY <1>1, <2>1, <2>3, <2>5, OneStretchMoves, OnePlaceMoves, ZenonT(60), <2>2, <2>4 DEF
         GuestData, GoesOn, Put, Relaying, Rest
<1> QED
    BY <1>3, <1>0, ZenonT(60) DEF GuestData, GoesOn, Put, Relaying, Rest

\* guest_to_host takes the end.
LEMMA GuestEofStep ==
    ASSUME ForwardInv, NEW c \in Conns, GuestEof(c)
    PROVE  PlacesInv' /\ ConnsInv'
<1>0. PICK k, s : k = conn[c] /\ s = session[c]
    OBVIOUS
<1>1. /\ k \in RelayConns /\ s \in GuestSessions /\ Stretch(k, s)
      /\ session = [session EXCEPT ![c] = s] /\ conn = [conn EXCEPT ![c] = k]
      /\ PlacesInv /\ ConnsInv /\ InPlace(k, s, loop, boot, boots) /\ (c \in taking => k.at = "taken")
    BY <1>0, StretchOf, ZenonT(60) DEF ForwardInv, PlacesInv
<1>2. boot' = boot /\ boots' = boots /\ loop' = loop /\ taking' = taking
    BY DEF GuestEof, GoesOn, Put, Relaying, Rest, EndsRelay
<1>b. PICK at : at = IF Reached(c) THEN "closed" ELSE s.at
    OBVIOUS
<1>a. at \in {s.at, "closed"} /\ (at = "closed" \/ (at = s.at /\ ~(s.boot = boot /\ boot # 0)))
    BY <1>0, <1>b, ZenonT(60) DEF Reached
<1>3. CASE ~conn[c].hostClosed
  <2> PICK r : r = [k EXCEPT !.guestClosed = TRUE, !.shut = TRUE, !.flushed = k.written]
      OBVIOUS
  <2> PICK q : q = [s EXCEPT !.inbox = Tail(s.inbox)]
      OBVIOUS
  <2>1. /\ conn' = [conn EXCEPT ![c] = r] /\ session' = [session EXCEPT ![c] = q]
      BY <1>3, <1>0, <1>1, <1>b, SMTT(60) DEF GuestEof, GoesOn, Put, Relaying, Rest, EndsRelay
  <2>2. k.at = "relays" /\ s.inbox # <<>> /\ Head(s.inbox) = "eof" /\ ~k.hostClosed
      BY <1>3, <1>0, <1>1, ZenonT(60) DEF GuestEof, GoesOn, Put, Relaying, Rest, EndsRelay
  <2>4. r.own = k.own /\ r.at = k.at /\ q.boot = s.boot /\ q.at = s.at
      BY <1>1, ZenonT(60) DEF RelayConns, GuestSessions
  <2>5. InPlace(r, q, loop, boot, boots)
      BY <1>1, <2>2, <2>4, <1>a, StaysInPlace, ZenonT(60)
  <2> QED
      BY <1>1, <1>2, <2>1, <2>5, OneStretchMoves, OnePlaceMoves, ZenonT(60), <2>2, <2>4, TakesEnd
<1>4. CASE conn[c].hostClosed
  <2> PICK r : r = [k EXCEPT !.guestClosed = TRUE, !.shut = TRUE, !.flushed = k.written, !.at = "done", !.result = "both"]
      OBVIOUS
  <2> PICK q : q = [s EXCEPT !.at = at]
      OBVIOUS
  <2>1. /\ conn' = [conn EXCEPT ![c] = r] /\ session' = [session EXCEPT ![c] = q]
      BY <1>4, <1>0, <1>1, <1>b, SMTT(60) DEF GuestEof, GoesOn, Put, Relaying, Rest, EndsRelay
  <2>2. k.at = "relays" /\ s.inbox # <<>> /\ Head(s.inbox) = "eof" /\ k.hostClosed
      BY <1>4, <1>0, <1>1, ZenonT(60) DEF GuestEof, GoesOn, Put, Relaying, Rest, EndsRelay
  <2>3. /\ r \in RelayConns /\ q \in GuestSessions /\ Stretch(r, q)
      BY <2>2, <1>a, TakesLastEnd, ZenonT(60), <1>1
  <2>4. r.own = k.own /\ r.at = "done" /\ q.boot = s.boot /\ q.at = at
      BY <1>1, ZenonT(60) DEF RelayConns, GuestSessions
  <2>5. InPlace(r, q, loop, boot, boots)
      BY <1>1, <2>2, <2>4, <1>a, StaysInPlace, ZenonT(60)
  <2> QED
      BY <1>1, <1>2, <2>1, <2>3, <2>5, OneStretchMoves, OnePlaceMoves, ZenonT(60), <2>2, <2>4
<1> QED
    BY <1>3, <1>4, <1>0, ZenonT(60) DEF GuestEof, GoesOn, Put, Relaying, Rest, EndsRelay

\* A send that fails ends the relay.
LEMMA SendFailsStep ==
    ASSUME ForwardInv, NEW c \in Conns, SendFails(c)
    PROVE  PlacesInv' /\ ConnsInv'
<1>0. PICK k, s : k = conn[c] /\ s = session[c]
    OBVIOUS
<1>1. /\ k \in RelayConns /\ s \in GuestSessions /\ Stretch(k, s)
      /\ session = [session EXCEPT ![c] = s] /\ conn = [conn EXCEPT ![c] = k]
      /\ PlacesInv /\ ConnsInv /\ InPlace(k, s, loop, boot, boots) /\ (c \in taking => k.at = "taken")
    BY <1>0, StretchOf, ZenonT(60) DEF ForwardInv, PlacesInv
<1>b. PICK at : at = IF Reached(c) THEN "closed" ELSE s.at
    OBVIOUS
<1>a. at \in {s.at, "closed"} /\ (at = "closed" \/ (at = s.at /\ ~(s.boot = boot /\ boot # 0)))
    BY <1>0, <1>b, ZenonT(60) DEF Reached
<1>3. CASE TRUE
  <2> PICK r : r = [k EXCEPT !.at = "done", !.result = "failed"]
      OBVIOUS
  <2> PICK q : q = [s EXCEPT !.at = at]
      OBVIOUS
  <2>1. /\ conn' = [conn EXCEPT ![c] = r] /\ session' = [session EXCEPT ![c] = q]
      BY <1>3, <1>0, <1>1, <1>b, SMTT(60) DEF SendFails, EndsRelay, Put, Relaying
  <2>2. k.at = "relays" /\ "failed" \in {"failed", "gone"}
      BY <1>3, <1>0, <1>1, ZenonT(60) DEF SendFails, EndsRelay, Put, Relaying
  <2>3. /\ r \in RelayConns /\ q \in GuestSessions /\ Stretch(r, q)
      BY <2>2, <1>a, RelayEnds, ZenonT(60), <1>1
  <2>4. r.own = k.own /\ r.at = "done" /\ q.boot = s.boot /\ q.at = at
      BY <1>1, ZenonT(60) DEF RelayConns, GuestSessions
  <2>5. InPlace(r, q, loop, boot, boots)
      BY <1>1, <2>2, <2>4, <1>a, StaysInPlace, ZenonT(60)
  <2> QED
      BY <1>1, <2>1, <2>3, <2>5, OneStretchMoves, OnePlaceMoves, ZenonT(60), <2>2, <2>4 DEF
         SendFails, EndsRelay, Put, Relaying
<1> QED
    BY <1>3, <1>0, ZenonT(60) DEF SendFails, EndsRelay, Put, Relaying

\* A guest that is gone ends the relay.
LEMMA GuestGoneStep ==
    ASSUME ForwardInv, NEW c \in Conns, GuestGone(c)
    PROVE  PlacesInv' /\ ConnsInv'
<1>0. PICK k, s : k = conn[c] /\ s = session[c]
    OBVIOUS
<1>1. /\ k \in RelayConns /\ s \in GuestSessions /\ Stretch(k, s)
      /\ session = [session EXCEPT ![c] = s] /\ conn = [conn EXCEPT ![c] = k]
      /\ PlacesInv /\ ConnsInv /\ InPlace(k, s, loop, boot, boots) /\ (c \in taking => k.at = "taken")
    BY <1>0, StretchOf, ZenonT(60) DEF ForwardInv, PlacesInv
<1>b. PICK at : at = IF Reached(c) THEN "closed" ELSE s.at
    OBVIOUS
<1>a. at \in {s.at, "closed"} /\ (at = "closed" \/ (at = s.at /\ ~(s.boot = boot /\ boot # 0)))
    BY <1>0, <1>b, ZenonT(60) DEF Reached
<1>3. CASE TRUE
  <2> PICK r : r = [k EXCEPT !.at = "done", !.result = "gone"]
      OBVIOUS
  <2> PICK q : q = [s EXCEPT !.at = at]
      OBVIOUS
  <2>1. /\ conn' = [conn EXCEPT ![c] = r] /\ session' = [session EXCEPT ![c] = q]
      BY <1>3, <1>0, <1>1, <1>b, SMTT(60) DEF GuestGone, EndsRelay, Put, Relaying
  <2>2. k.at = "relays" /\ "gone" \in {"failed", "gone"}
      BY <1>3, <1>0, <1>1, ZenonT(60) DEF GuestGone, EndsRelay, Put, Relaying
  <2>3. /\ r \in RelayConns /\ q \in GuestSessions /\ Stretch(r, q)
      BY <2>2, <1>a, RelayEnds, ZenonT(60), <1>1
  <2>4. r.own = k.own /\ r.at = "done" /\ q.boot = s.boot /\ q.at = at
      BY <1>1, ZenonT(60) DEF RelayConns, GuestSessions
  <2>5. InPlace(r, q, loop, boot, boots)
      BY <1>1, <2>2, <2>4, <1>a, StaysInPlace, ZenonT(60)
  <2> QED
      BY <1>1, <2>1, <2>3, <2>5, OneStretchMoves, OnePlaceMoves, ZenonT(60), <2>2, <2>4 DEF
         GuestGone, EndsRelay, Put, Relaying
<1> QED
    BY <1>3, <1>0, ZenonT(60) DEF GuestGone, EndsRelay, Put, Relaying

\* A client that fails ends the relay.
LEMMA HostFailsStep ==
    ASSUME ForwardInv, NEW c \in Conns, HostFails(c)
    PROVE  PlacesInv' /\ ConnsInv'
<1>0. PICK k, s : k = conn[c] /\ s = session[c]
    OBVIOUS
<1>1. /\ k \in RelayConns /\ s \in GuestSessions /\ Stretch(k, s)
      /\ session = [session EXCEPT ![c] = s] /\ conn = [conn EXCEPT ![c] = k]
      /\ PlacesInv /\ ConnsInv /\ InPlace(k, s, loop, boot, boots) /\ (c \in taking => k.at = "taken")
    BY <1>0, StretchOf, ZenonT(60) DEF ForwardInv, PlacesInv
<1>b. PICK at : at = IF Reached(c) THEN "closed" ELSE s.at
    OBVIOUS
<1>a. at \in {s.at, "closed"} /\ (at = "closed" \/ (at = s.at /\ ~(s.boot = boot /\ boot # 0)))
    BY <1>0, <1>b, ZenonT(60) DEF Reached
<1>3. CASE TRUE
  <2> PICK r : r = [k EXCEPT !.at = "done", !.result = "failed"]
      OBVIOUS
  <2> PICK q : q = [s EXCEPT !.at = at]
      OBVIOUS
  <2>1. /\ conn' = [conn EXCEPT ![c] = r] /\ session' = [session EXCEPT ![c] = q]
      BY <1>3, <1>0, <1>1, <1>b, SMTT(60) DEF HostFails, EndsRelay, Put, Relaying
  <2>2. k.at = "relays" /\ "failed" \in {"failed", "gone"}
      BY <1>3, <1>0, <1>1, ZenonT(60) DEF HostFails, EndsRelay, Put, Relaying
  <2>3. /\ r \in RelayConns /\ q \in GuestSessions /\ Stretch(r, q)
      BY <2>2, <1>a, RelayEnds, ZenonT(60), <1>1
  <2>4. r.own = k.own /\ r.at = "done" /\ q.boot = s.boot /\ q.at = at
      BY <1>1, ZenonT(60) DEF RelayConns, GuestSessions
  <2>5. InPlace(r, q, loop, boot, boots)
      BY <1>1, <2>2, <2>4, <1>a, StaysInPlace, ZenonT(60)
  <2> QED
      BY <1>1, <2>1, <2>3, <2>5, OneStretchMoves, OnePlaceMoves, ZenonT(60), <2>2, <2>4 DEF
         HostFails, EndsRelay, Put, Relaying
<1> QED
    BY <1>3, <1>0, ZenonT(60) DEF HostFails, EndsRelay, Put, Relaying


\* A local client connects.
LEMMA ConnectsStep ==
    ASSUME ForwardInv, NEW c \in Conns, NEW own \in BOOLEAN, Connects(c, own)
    PROVE  PlacesInv' /\ ConnsInv'
<1>0. PICK k, s : k = conn[c] /\ s = session[c]
    OBVIOUS
<1>1. /\ k \in RelayConns /\ s \in GuestSessions /\ Stretch(k, s)
      /\ session = [session EXCEPT ![c] = s] /\ conn = [conn EXCEPT ![c] = k]
      /\ PlacesInv /\ ConnsInv /\ InPlace(k, s, loop, boot, boots) /\ (c \in taking => k.at = "taken")
    BY <1>0, StretchOf, ZenonT(60) DEF ForwardInv, PlacesInv
<1>a. PICK at : at = IF own THEN "dials" ELSE "waits"
    OBVIOUS
<1>2. boot' = boot /\ boots' = boots /\ loop' = loop /\ taking' = taking
    BY <1>1, ZenonT(60) DEF Connects, Put
<1>3. PICK r : r = [k EXCEPT !.at = at, !.own = own]
    OBVIOUS
<1>4. /\ conn' = [conn EXCEPT ![c] = r] /\ session' = [session EXCEPT ![c] = s]
    BY <1>0, <1>1, <1>3, <1>a, SMTT(60) DEF Connects, Put
<1>5. k.at = "new" /\ (own \/ loop # "stopped")
    BY <1>0, <1>1, ZenonT(60) DEF Connects, Put, InPlace
<1>6. r \in RelayConns /\ Stretch(r, s)
    BY <1>3, <1>5, PlaceMoves, ZenonT(60), <1>a, <1>1
<1> QED
    BY <1>1, <1>2, <1>4, <1>6, OneStretchMoves, OnePlaceMoves, ZenonT(60), <1>5, <1>a, <1>3 DEF
       InPlace, RelayConns, Stretch, Untouched, NoSession

\* A connection that only changes its place.
LEMMA PlaceOnlyMoves ==
    ASSUME NEW k \in RelayConns, NEW s \in GuestSessions, Stretch(k, s),
           NEW at \in {"waits", "taken", "dials", "dropped"},
           k.at \in {"new", "waits", "taken", "dials"} \/ (k.at = "relays" /\ at = "dropped"),
           NEW r, r = [k EXCEPT !.at = at]
    PROVE  r \in RelayConns /\ Stretch(r, s)
BY DEF ConnPlaces, RelayConns, Stretch, HostHalf, Untouched, GuestHalf

\* accept_loop takes a connection.
LEMMA AcceptsStep ==
    ASSUME ForwardInv, NEW c \in Conns, Accepts(c)
    PROVE  PlacesInv' /\ ConnsInv'
<1>0. PICK k, s : k = conn[c] /\ s = session[c]
    OBVIOUS
<1>1. /\ k \in RelayConns /\ s \in GuestSessions /\ Stretch(k, s)
      /\ session = [session EXCEPT ![c] = s] /\ conn = [conn EXCEPT ![c] = k]
      /\ PlacesInv /\ ConnsInv /\ InPlace(k, s, loop, boot, boots) /\ (c \in taking => k.at = "taken")
    BY <1>0, StretchOf, ZenonT(60) DEF ForwardInv, PlacesInv
<1>3. PICK r : r = [k EXCEPT !.at = "taken"]
    OBVIOUS
<1>6. r \in RelayConns /\ Stretch(r, s)
    BY <1>3, PlaceOnlyMoves, ZenonT(60), <1>0, <1>1 DEF Accepts, MovesTo, Put, InPlace
<1> QED
    BY <1>1, <1>6, OneStretchMoves, OnePlaceMoves, ZenonT(60), <1>3, <1>0 DEF InPlace, RelayConns,
       Stretch, Untouched, NoSession, Accepts, MovesTo, Put

\* The dialer reaches no runtime.
LEMMA DialFailsStep ==
    ASSUME ForwardInv, NEW c \in Conns, DialFails(c)
    PROVE  PlacesInv' /\ ConnsInv'
<1>0. PICK k, s : k = conn[c] /\ s = session[c]
    OBVIOUS
<1>1. /\ k \in RelayConns /\ s \in GuestSessions /\ Stretch(k, s)
      /\ session = [session EXCEPT ![c] = s] /\ conn = [conn EXCEPT ![c] = k]
      /\ PlacesInv /\ ConnsInv /\ InPlace(k, s, loop, boot, boots) /\ (c \in taking => k.at = "taken")
    BY <1>0, StretchOf, ZenonT(60) DEF ForwardInv, PlacesInv
<1>3. PICK r : r = [k EXCEPT !.at = "dropped"]
    OBVIOUS
<1>5. k.at = "taken"
    BY <1>0, <1>1, ZenonT(60) DEF DialFails, MovesTo, Put, InPlace
<1>6. r \in RelayConns /\ Stretch(r, s)
    BY <1>3, <1>5, PlaceOnlyMoves, ZenonT(60), <1>1
<1> QED
    BY <1>1, <1>6, OneStretchMoves, OnePlaceMoves, ZenonT(60), <1>5, <1>3, <1>0 DEF InPlace,
       RelayConns, Stretch, Untouched, NoSession, DialFails, MovesTo, Put

\* The guest refuses the connection.
LEMMA ConnectFailsStep ==
    ASSUME ForwardInv, NEW c \in Conns, ConnectFails(c)
    PROVE  PlacesInv' /\ ConnsInv'
<1>0. PICK k, s : k = conn[c] /\ s = session[c]
    OBVIOUS
<1>1. /\ k \in RelayConns /\ s \in GuestSessions /\ Stretch(k, s)
      /\ session = [session EXCEPT ![c] = s] /\ conn = [conn EXCEPT ![c] = k]
      /\ PlacesInv /\ ConnsInv /\ InPlace(k, s, loop, boot, boots) /\ (c \in taking => k.at = "taken")
    BY <1>0, StretchOf, ZenonT(60) DEF ForwardInv, PlacesInv
<1>3. PICK r : r = [k EXCEPT !.at = "dropped"]
    OBVIOUS
<1>5. k.at = "taken"
    BY <1>0, <1>1, ZenonT(60) DEF ConnectFails, MovesTo, Put, InPlace
<1>6. r \in RelayConns /\ Stretch(r, s)
    BY <1>3, <1>5, PlaceOnlyMoves, ZenonT(60), <1>1
<1> QED
    BY <1>1, <1>6, OneStretchMoves, OnePlaceMoves, ZenonT(60), <1>5, <1>3, <1>0 DEF InPlace,
       RelayConns, Stretch, Untouched, NoSession, ConnectFails, MovesTo, Put

\* The boots are natural numbers, and the one that runs is the last.
LEMMA BootsAreCounted ==
    ASSUME LoopInv
    PROVE  /\ boots \in Nat /\ boot \in Nat /\ boot <= boots /\ dialer \in Nat /\ dialer <= boots
           /\ MaxBoots \in Nat /\ boots <= MaxBoots
BY ForwardConstants DEF LoopInv

\* The guest answers.
LEMMA ConnectSucceedsStep ==
    ASSUME ForwardInv, NEW c \in Conns, LoopInv, ConnectSucceeds(c)
    PROVE  PlacesInv' /\ ConnsInv'
<1>0. PICK k, s : k = conn[c] /\ s = session[c]
    OBVIOUS
<1>3. PICK r, q : r = [k EXCEPT !.at = "relays"] /\ q = [NoSession EXCEPT !.at = "open", !.boot = boot]
    OBVIOUS
<1>5. k.at = "taken"
    BY <1>0, ZenonT(60), StretchOf DEF ConnectSucceeds, MovesTo, Put, InPlace, ForwardInv, PlacesInv
<1>b. r \in RelayConns /\ q \in GuestSessions /\ Stretch(r, q)
    BY <1>3, <1>5, RelayBegins, ZenonT(60), BootsAreCounted, <1>0, StretchOf DEF ForwardInv,
       PlacesInv
<1>d. q.boot = boot
    BY <1>3, FreshSession, ZenonT(60), BootsAreCounted
<1>8. InPlace(r, q, loop', boot, boots)
    BY <1>5, <1>d, ZenonT(60), <1>3, BootsAreCounted, <1>0, StretchOf DEF InPlace, RelayConns,
       ConnectSucceeds, MovesTo, Put, ForwardInv, PlacesInv
<1> QED
    BY <1>b, <1>8, OneStretchMoves, OnePlaceMoves, ZenonT(60), <1>5, <1>0, <1>3, StretchOf DEF
       ConnectSucceeds, MovesTo, Put, Opened, ForwardInv, PlacesInv

\* ssh-proxy dials for its connection.
LEMMA RelayGuestPortStep ==
    ASSUME ForwardInv, NEW c \in Conns, LoopInv, relay_guest_port(c)
    PROVE  PlacesInv' /\ ConnsInv'
<1>0. PICK k, s : k = conn[c] /\ s = session[c]
    OBVIOUS
<1>x. CASE Answers(boot)
  <2>3. PICK r, q : r = [k EXCEPT !.at = "relays"] /\ q = [NoSession EXCEPT !.at = "open", !.boot = boot]
      OBVIOUS
  <2>4. /\ conn' = [conn EXCEPT ![c] = r] /\ session' = [session EXCEPT ![c] = q]
      BY <1>0, <2>3, <1>x, SMTT(60), StretchOf DEF relay_guest_port, MovesTo, Put, Opened,
         ForwardInv, PlacesInv
  <2>5. k.at = "dials" /\ k.own
      BY <1>0, <1>x, ZenonT(60), StretchOf DEF relay_guest_port, MovesTo, Put, InPlace, ForwardInv,
         PlacesInv
  <2>b. r \in RelayConns /\ q \in GuestSessions /\ Stretch(r, q)
      BY <2>3, <2>5, RelayBegins, ZenonT(60), BootsAreCounted, <1>0, StretchOf DEF ForwardInv,
         PlacesInv
  <2>d. q.boot = boot
      BY <2>3, FreshSession, ZenonT(60), BootsAreCounted
  <2>8. InPlace(r, q, loop', boot, boots)
      BY <2>5, <2>d, ZenonT(60), <2>3, BootsAreCounted, <1>0, StretchOf DEF InPlace, RelayConns,
         relay_guest_port, MovesTo, Put, ForwardInv, PlacesInv
  <2> QED
      BY <2>4, <2>b, <2>8, OneStretchMoves, OnePlaceMoves, ZenonT(60), <2>5, <1>0, StretchOf DEF
         relay_guest_port, MovesTo, Put, ForwardInv, PlacesInv
<1>y. CASE ~Answers(boot)
    BY <1>y, PlaceOnlyMoves, OneStretchMoves, OnePlaceMoves, <1>0, StretchOf DEF relay_guest_port,
       MovesTo, Put, InPlace, RelayConns, ForwardInv, PlacesInv
<1> QED
    BY <1>x, <1>y

\* Stopping drops what the accepting task held, and closes its sessions.
LEMMA StopsForwardStep ==
    ASSUME ForwardInv, StopsForward
    PROVE  PlacesInv' /\ ConnsInv'
<1>3. ASSUME NEW c \in Conns
      PROVE  /\ conn'[c] \in RelayConns /\ session'[c] \in GuestSessions /\ Stretch(conn'[c], session'[c])
             /\ InPlace(conn'[c], session'[c], "stopped", boot, boots)
  <2>0. PICK k, s : k = conn[c] /\ s = session[c]
      OBVIOUS
  <2>1. k \in RelayConns /\ s \in GuestSessions /\ Stretch(k, s)
      BY <2>0, StretchOf, ZenonT(60) DEF ForwardInv
  <2>2. InPlace(k, s, loop, boot, boots)
      BY <2>0, ZenonT(60) DEF ForwardInv, PlacesInv
  <2>3. CASE ~Aborted(c)
      BY <2>0, <2>3, <2>2, <2>1 DEF InPlace, Aborted, StopsForward, Release
  <2>4. CASE Aborted(c)
    <3>2. PICK at : at = IF session[c].at = "open" /\ Reached(c) THEN "closed" ELSE s.at
        OBVIOUS
    <3>3. PICK r, q : r = [k EXCEPT !.at = "dropped"] /\ q = [s EXCEPT !.at = at]
        OBVIOUS
    <3>4. conn'[c] = r
        BY <2>0, <2>4, <3>3, ZenonT(60) DEF StopsForward
    <3>5. session'[c] = q
        BY <2>1, <2>0, <2>4, <3>2, <3>3 DEF GuestSessions, StopsForward, Release
    <3>6. at \in {s.at, "closed"} /\ ~(at = "open" /\ s.boot = boot /\ boot # 0)
        BY <2>0, <3>2, ZenonT(60) DEF Reached
    <3>7. r \in RelayConns /\ q \in GuestSessions /\ Stretch(r, q)
      <4>1. CASE k.at = "relays"
          BY <2>1, <3>3, <3>6, <4>1, IsDropped, ZenonT(60)
      <4>2. CASE k.at \in {"waits", "taken"}
          BY <2>1, <4>2, <2>0, <3>2, <3>3, PlaceOnlyMoves DEF Stretch, Untouched, NoSession
      <4> QED
          BY <4>1, <4>2, ZenonT(60), <2>0, <2>4 DEF Aborted
    <3> QED
        BY <3>4, <3>5, <3>7, ZenonT(60), <2>2, <3>6, <2>1, <3>3 DEF InPlace, RelayConns,
           GuestSessions
  <2> QED
      BY <2>3, <2>4
<1> QED
    BY <1>3, ZenonT(60) DEF ConnsInv, PlacesInv, StopsForward, Release

\* A runtime that starts has reached no session yet, one that stopped reaches none.
LEMMA RuntimeSteps ==
    ASSUME ForwardInv, RuntimeStarts \/ RuntimeStops
    PROVE  PlacesInv' /\ ConnsInv'
BY BootsAreCounted DEF RuntimeStarts, RuntimeStops, ForwardInv, ConnsInv, PlacesInv, GuestSessions,
   InPlace

\* Dialing moves no connection.
LEMMA NoConnMoves ==
    ASSUME ForwardInv, UNCHANGED <<boot, boots, taking, conn, session>>, loop' = loop \/ loop' # "stopped"
    PROVE  PlacesInv' /\ ConnsInv'
BY DEF ForwardInv, ConnsInv, PlacesInv, InPlace


\* No relay moves the accepting task or the runtime.
LEMMA RelaysLeaveLoop ==
    ASSUME NEW c \in Conns, shown_failure \in {"none", "failed"},
           \/ \E own \in BOOLEAN : Connects(c, own)
           \/ ClientWrites(c) \/ ServerSends(c) \/ relay_guest_port(c) \/ Relays(c)
    PROVE  /\ UNCHANGED <<boot, boots, listens, loop, taking, dialer, refused>>
           /\ shown_failure' \in {"none", "failed"}
<1>1. CASE \E own \in BOOLEAN : Connects(c, own)
    BY <1>1, ZenonT(60) DEF Connects
<1>2. CASE ClientWrites(c) \/ ServerSends(c) \/ relay_guest_port(c)
    BY <1>2, ZenonT(60) DEF ClientWrites, ServerSends, relay_guest_port
<1>3. CASE HostRead(c) \/ HostSent(c) \/ GuestData(c)
    BY <1>3, ZenonT(60) DEF HostRead, HostSent, GuestData, GoesOn
<1>4. CASE HostSentEof(c) \/ GuestEof(c)
    BY <1>4, ZenonT(60) DEF HostSentEof, GuestEof, GoesOn, EndsRelay
<1>5. CASE SendFails(c) \/ GuestGone(c) \/ HostFails(c)
    BY <1>5, ZenonT(60) DEF SendFails, GuestGone, HostFails, EndsRelay
<1> QED
    BY <1>1, <1>2, <1>3, <1>4, <1>5 DEF Relays

\* What the accepting task knows stays true of the runtime.
LEMMA LoopStays ==
    ASSUME LoopInv, ForwardNext
    PROVE  LoopInv'
<1>1. CASE RuntimeStarts
    BY <1>1, BootsAreCounted DEF RuntimeStarts, LoopInv
<1>2. CASE RuntimeStops
  <2>2. boot' \in 0..boots'
      BY SMTT(60), <1>2, BootsAreCounted DEF RuntimeStops
  <2> QED
      BY <2>2, ZenonT(60), <1>2 DEF LoopInv, RuntimeStops
<1>3. CASE Listens
    BY <1>3, ZenonT(60) DEF Listens, LoopInv
<1>4. CASE Dials
    BY <1>4 DEF Dials, LoopInv
<1>5. CASE StopsForward
    BY <1>5, ZenonT(60) DEF StopsForward, LoopInv
<1>6. ASSUME NEW c \in Conns, Accepts(c) PROVE LoopInv'
    BY <1>6 DEF Accepts, LoopInv
<1>7. ASSUME NEW c \in Conns, DialFails(c) PROVE LoopInv'
    BY <1>7, ZenonT(60) DEF DialFails, LoopInv
<1>8. ASSUME NEW c \in Conns, ConnectSucceeds(c) PROVE LoopInv'
    BY <1>8, ZenonT(60) DEF ConnectSucceeds, LoopInv
<1>9. ASSUME NEW c \in Conns, ConnectFails(c) PROVE LoopInv'
    BY <1>9 DEF ConnectFails, LoopInv, Answers
<1>10. ASSUME NEW c \in Conns,
              \/ \E own \in BOOLEAN : Connects(c, own)
              \/ ClientWrites(c) \/ ServerSends(c) \/ relay_guest_port(c) \/ Relays(c)
       PROVE  LoopInv'
    BY <1>10, RelaysLeaveLoop DEF LoopInv
<1> QED
    BY <1>1, <1>2, <1>3, <1>4, <1>5, <1>6, <1>7, <1>8, <1>9, <1>10 DEF ForwardNext

\* The connections keep their places and counts.
LEMMA ConnsStay ==
    ASSUME ForwardInv, ForwardNext
    PROVE  PlacesInv' /\ ConnsInv'
<1>1. CASE RuntimeStarts \/ RuntimeStops
    BY <1>1, RuntimeSteps
<1>2. CASE Listens \/ Dials
    BY <1>2, NoConnMoves DEF Listens, Dials
<1>3. CASE StopsForward
    BY <1>3, StopsForwardStep
<1>4. ASSUME NEW c \in Conns, NEW own \in BOOLEAN, Connects(c, own) PROVE PlacesInv' /\ ConnsInv'
    BY <1>4, ConnectsStep
<1>5. ASSUME NEW c \in Conns, ClientWrites(c) \/ ServerSends(c) PROVE PlacesInv' /\ ConnsInv'
    BY <1>5, ClientWritesStep, ServerSendsStep
<1>6. ASSUME NEW c \in Conns, Accepts(c) \/ DialFails(c) \/ ConnectSucceeds(c) \/ ConnectFails(c)
      PROVE  PlacesInv' /\ ConnsInv'
    BY <1>6, AcceptsStep, DialFailsStep, ConnectSucceedsStep, ConnectFailsStep DEF ForwardInv
<1>7. ASSUME NEW c \in Conns, relay_guest_port(c) PROVE PlacesInv' /\ ConnsInv'
    BY <1>7, RelayGuestPortStep DEF ForwardInv
<1>8. ASSUME NEW c \in Conns, Relays(c) PROVE PlacesInv' /\ ConnsInv'
    BY <1>8, HostReadStep, HostSentStep, HostSentEofStep, SendFailsStep, GuestDataStep, GuestEofStep, GuestGoneStep,
     HostFailsStep DEF Relays
<1> QED
    BY <1>1, <1>2, <1>3, <1>4, <1>5, <1>6, <1>7, <1>8 DEF ForwardNext

\* The invariant holds at the start.
LEMMA ForwardBegins == ForwardInit => ForwardInv
<1> SUFFICES ASSUME ForwardInit PROVE ForwardInv
    OBVIOUS
<1>1. LoopInv
  <2>2. boot \in 0..boots /\ boots \in 0..MaxBoots /\ dialer \in 0..boots /\ refused \in {0, 1} /\ refused # 1
      BY ForwardConstants, SMTT(60) DEF ForwardInit
  <2> QED
      BY <2>2, ZenonT(60) DEF LoopInv, ForwardInit
<1>2. NoSession \in GuestSessions
    BY DEF NoSession, GuestSessions
<1>3. NewConn \in RelayConns
    BY SMTT(60) DEF NewConn, RelayConns, ConnPlaces
<1>4. NewConn.at = "new" /\ NewConn.own = FALSE /\ NewConn.result = "none" /\ NewConn.out = 0
    BY SMTT(60) DEF NewConn
<1>5. Untouched(NewConn, NoSession)
    BY SMTT(60) DEF NewConn, Untouched
<1>6. NoSession.boot = 0 /\ NoSession.got = 0 /\ NoSession.out = 0 /\ NoSession.at = "none"
    BY SMTT(60) DEF NoSession
<1> QED
    BY <1>1, <1>4, <1>6, <1>2, <1>3, <1>5 DEF ForwardInv, InPlace, PlacesInv, ConnsInv, ForwardInit,
       HostHalf, Untouched, GuestHalf, Stretch

\* What the inductive invariant says of one connection.
LEMMA ForwardedIsWhole == ForwardInv => ForwardedBytesAreWhole
<1> SUFFICES ASSUME ForwardInv PROVE ForwardedBytesAreWhole
    OBVIOUS
<1>3. ASSUME NEW c \in Conns
      PROVE  /\ conn[c] \in RelayConns /\ session[c] \in GuestSessions /\ Stretch(conn[c], session[c])
             /\ InPlace(conn[c], session[c], loop, boot, boots)
    BY StretchOf, ZenonT(60) DEF PlacesInv, ForwardInv
<1>4. ForwardTypeOK
    BY <1>3, BootsAreCounted DEF RelayConns, GuestSessions, ConnPlaces, Stretch, HostHalf,
       GuestHalf, ForwardTypeOK, LoopInv, ForwardInv
<1>5. OneIsLostPerRestart
    BY DEF LoopInv, OneIsLostPerRestart, ForwardInv
<1>6. BothDirectionsAreWhole
    BY <1>3, ZenonT(60) DEF BothDirectionsAreWhole, Stretch, IsWhole
<1> QED
    BY <1>4, <1>5, <1>6, <1>3 DEF ForwardedBytesAreWhole, StoppedHoldsNothing, InPlace, Relaying,
       Reached, IdleIsFlushed, Stretch, GuestHalf, ClosedIsOver

\* A forwarded connection carries both directions whole and in order, a restart of the guest costs
\* one connection, and a stopped forward holds nothing, for any number of connections, chunks and
\* boots (sandbox/forward.rs, guest_tcp.rs).
THEOREM ForwardsAreWhole == ForwardSpec => []ForwardedBytesAreWhole
<1>1. ForwardInit => ForwardInv
  BY ForwardBegins
<1>2. ForwardInv /\ [ForwardNext]_forwardVars => ForwardInv'
  <2> SUFFICES ASSUME ForwardInv, [ForwardNext]_forwardVars PROVE ForwardInv'
    OBVIOUS
  <2>1. CASE ForwardNext
    BY <2>1, LoopStays, ConnsStay DEF ForwardInv
  <2>2. CASE UNCHANGED forwardVars
    <3>1. /\ boot' = boot /\ boots' = boots /\ listens' = listens /\ loop' = loop /\ taking' = taking
          /\ dialer' = dialer /\ shown_failure' = shown_failure /\ conn' = conn /\ session' = session
          /\ refused' = refused
      BY <2>2 DEF forwardVars
    <3>2. LoopInv'
      BY <3>1, ZenonT(60) DEF ForwardInv, LoopInv
    <3>3. PlacesInv'
      BY <3>1, ZenonT(60) DEF ForwardInv, PlacesInv
    <3>4. ConnsInv'
      BY <3>1, ZenonT(60) DEF ForwardInv, ConnsInv
    <3> QED BY <3>2, <3>3, <3>4 DEF ForwardInv
  <2> QED BY <2>1, <2>2
<1>3. ForwardInv => ForwardedBytesAreWhole
  BY ForwardedIsWhole
<1> QED BY <1>1, <1>2, <1>3, PTL DEF ForwardSpec

-----------------------------------------------------------------------------
(* A placed file.                                                          *)

PlacerSteps == {"rests", "compares", "looks", "stages", "streams", "chowns", "chmods", "renames"}
StagedSteps == {"streams", "chowns", "chmods", "renames"}
PlacerFields == {"at", "content", "open", "existing", "staged", "blind"}

FilesAreTyped ==
    /\ \E n \in Nat : DOMAIN inodes = 1..n
    /\ inodes \in [DOMAIN inodes -> Inode]
    /\ path \in {0} \cup DOMAIN inodes
    /\ placer = [p \in Placers |-> placer[p]]
    /\ \A p \in Placers : DOMAIN placer[p] = PlacerFields
    /\ touched \in [Placers -> {"no", "before", "since"}]
    /\ read \in [open : {0} \cup DOMAIN inodes, whole : BOOLEAN, count : 0..MaxReads]

(* What a pass relies on of the file it looked at and the one it stages.    *)
PlacerIsSound(r) ==
    /\ r.at \in PlacerSteps
    /\ r.at # "rests" => r.content \in FileContents
    /\ r.existing \in {0} \cup DOMAIN inodes
    /\ r.staged \in {0} \cup DOMAIN inodes
    /\ r.staged # 0 <=> r.at \in StagedSteps
    /\ r.at = "chowns" => r.existing # 0
    /\ r.at \in {"chowns", "chmods", "renames"} => inodes[r.staged].whole

(* What others can reach is complete.                                      *)
ReachedIsWhole ==
    /\ path # 0 => inodes[path].whole
    /\ read.open # 0 => inodes[read.open].whole
    /\ read.whole

FileInv ==
    /\ FilesAreTyped /\ (\A p \in Placers : PlacerIsSound(placer[p]))
    /\ ReachedIsWhole /\ StreamingIsPrivate

LEMMA FileInvKeeps ==
    ASSUME FileInv
    PROVE  FileTypeOK /\ ReadersSeeWholeFiles /\ StreamingIsPrivate
BY DEF FileInv, FilesAreTyped, PlacerIsSound, ReachedIsWhole, FileTypeOK, ReadersSeeWholeFiles,
       StagedSteps

LEMMA LatestIsNext ==
    ASSUME FilesAreTyped
    PROVE  /\ Latest \in Nat \ {0} /\ Latest \notin DOMAIN inodes
           /\ DOMAIN inodes \cup {Latest} = 1..Latest
           /\ 1..Cardinality(DOMAIN inodes) + 1 = 1..Latest
           /\ 0 \notin DOMAIN inodes
<1>1. PICK n \in Nat : DOMAIN inodes = 1..n
    BY DEF FilesAreTyped
<1>2. Cardinality(DOMAIN inodes) = n
    BY <1>1, FS_Interval
<1> QED
    BY <1>1, <1>2 DEF Latest

(* A created inode is added to those there are.                            *)
LEMMA InodeCreated ==
    ASSUME FilesAreTyped, NEW inode \in Inode, Create(inode)
    PROVE  /\ inodes' \in [DOMAIN inodes' -> Inode]
           /\ DOMAIN inodes' = DOMAIN inodes \cup {Latest}
           /\ \E n \in Nat : DOMAIN inodes' = 1..n
           /\ inodes'[Latest] = inode
           /\ \A i \in DOMAIN inodes : inodes'[i] = inodes[i]
<1>1. DOMAIN inodes' = 1..Latest
    BY DEF Create, Latest
<1>2. \A i \in 1..Latest : inodes'[i] = IF i \in DOMAIN inodes THEN inodes[i] ELSE inode
    BY DEF Create, Latest
<1>3. inodes' = [i \in 1..Latest |-> inodes'[i]]
    BY DEF Create, Latest
<1>4. \A i \in DOMAIN inodes : inodes[i] \in Inode
    BY DEF FilesAreTyped
<1> QED
    BY <1>1, <1>2, <1>3, <1>4, LatestIsNext

(* An inode is changed in place, and stays whole if it was.                *)
LEMMA InodeChanged ==
    ASSUME FilesAreTyped, NEW i \in DOMAIN inodes, NEW inode \in Inode,
           inodes' = [inodes EXCEPT ![i] = inode]
    PROVE  /\ inodes' \in [DOMAIN inodes' -> Inode] /\ DOMAIN inodes' = DOMAIN inodes
           /\ inodes'[i] = inode
           /\ \A j \in DOMAIN inodes \ {i} : inodes'[j] = inodes[j]
BY DEF FilesAreTyped

(* A pass sets some fields of what it is doing, and no other pass moves.   *)
LEMMA SetFields ==
    ASSUME FilesAreTyped, NEW p \in Placers, NEW fields, Set(p, fields)
    PROVE  /\ placer' = [q \in Placers |-> placer'[q]]
           /\ DOMAIN placer'[p] = PlacerFields
           /\ \A f \in PlacerFields :
                placer'[p][f] = IF f \in DOMAIN fields THEN fields[f] ELSE placer[p][f]
           /\ \A q \in Placers \ {p} : placer'[q] = placer[q]
BY DEF FilesAreTyped, Set

LEMMA Rested ==
    ASSUME FilesAreTyped, NEW p \in Placers, Rests(p)
    PROVE  /\ placer' = [q \in Placers |-> placer'[q]]
           /\ DOMAIN placer'[p] = PlacerFields
           /\ placer'[p] = RestingPlacer
           /\ \A q \in Placers \ {p} : placer'[q] = placer[q]
BY DEF FilesAreTyped, Rests, RestingPlacer, PlacerFields

LEMMA RestIsSound ==
    ASSUME FilesAreTyped
    PROVE  PlacerIsSound(RestingPlacer) /\ PlacerIsSound(RestingPlacer)'
BY DEF PlacerIsSound, RestingPlacer, PlacerSteps, StagedSteps

LEMMA TouchesAreTyped ==
    ASSUME FilesAreTyped, Touches
    PROVE  touched' \in [Placers -> {"no", "before", "since"}]
BY DEF Touches, Touch

(* What holds of a pass goes on holding while files are only added, and    *)
(* the ones there are stay whole.                                          *)
LEMMA SoundStays ==
    ASSUME DOMAIN inodes \subseteq DOMAIN inodes', NEW r, PlacerIsSound(r), FilesAreTyped,
           \A i \in DOMAIN inodes : inodes[i].whole => inodes'[i].whole
    PROVE  /\ r.at \in PlacerSteps
           /\ r.at # "rests" => r.content \in FileContents
           /\ r.existing \in {0} \cup DOMAIN inodes'
           /\ r.staged \in {0} \cup DOMAIN inodes'
           /\ r.staged # 0 <=> r.at \in StagedSteps
           /\ r.at = "chowns" => r.existing # 0
           /\ r.at \in {"chowns", "chmods", "renames"} => inodes'[r.staged].whole
BY DEF PlacerIsSound, StagedSteps

(* One pass moves: the others stay as sound as they were.                  *)
LEMMA OnePlacer ==
    ASSUME FileInv, NEW p \in Placers,
           DOMAIN inodes \subseteq DOMAIN inodes',
           \A i \in DOMAIN inodes : inodes[i].whole => inodes'[i].whole,
           \A q \in Placers \ {p} : placer'[q] = placer[q],
           DOMAIN placer'[p] = PlacerFields,
           PlacerIsSound(placer[p])'
    PROVE  \A q \in Placers : PlacerIsSound(placer[q])' /\ DOMAIN placer'[q] = PlacerFields
<1> SUFFICES ASSUME NEW q \in Placers, q # p
             PROVE  PlacerIsSound(placer[q])' /\ DOMAIN placer'[q] = PlacerFields
    OBVIOUS
<1>1. PlacerIsSound(placer[q]) /\ FilesAreTyped /\ DOMAIN placer[q] = PlacerFields
    BY DEF FileInv, FilesAreTyped
<1>2. placer'[q] = placer[q]
    OBVIOUS
<1> QED
    BY <1>1, <1>2, SoundStays DEF PlacerIsSound

LEMMA PlacersRest ==
    ASSUME FileInv, UNCHANGED placer,
           DOMAIN inodes \subseteq DOMAIN inodes',
           \A i \in DOMAIN inodes : inodes[i].whole => inodes'[i].whole
    PROVE  /\ \A q \in Placers : PlacerIsSound(placer[q])' /\ DOMAIN placer'[q] = PlacerFields
           /\ placer' = [q \in Placers |-> placer'[q]]
<1>1. \A q \in Placers : PlacerIsSound(placer[q]) /\ DOMAIN placer[q] = PlacerFields
    BY DEF FileInv, FilesAreTyped
<1>2. FilesAreTyped
    BY DEF FileInv
<1>3. \A q \in Placers : PlacerIsSound(placer[q])'
    BY <1>1, <1>2, SoundStays DEF PlacerIsSound
<1> QED
    BY <1>1, <1>2, <1>3 DEF FilesAreTyped

LEMMA ModesAreGiven ==
    ASSUME NEW inode \in Inode, NEW owner \in Owners
    PROVE  Given(inode, owner) \in Inode /\ Given(inode, owner).whole = inode.whole
BY DEF Given, Inode, Modes, Owners

LEMMA FileParts ==
    ASSUME FileInv
    PROVE  /\ FilesAreTyped /\ ReachedIsWhole /\ StreamingIsPrivate
           /\ \A p \in Placers : PlacerIsSound(placer[p]) /\ DOMAIN placer[p] = PlacerFields
           /\ \A i \in DOMAIN inodes : inodes[i] \in Inode
           /\ placer = [p \in Placers |-> placer[p]]
BY DEF FileInv, FilesAreTyped

(* The guest and other readers leave every pass where it is.               *)
LEMMA GuestHolds ==
    ASSUME FileInv,
           \/ \E content \in FileContents, mode \in {"0644", "4755"} : GuestReplaces(content, mode)
           \/ GuestDeletes \/ GuestChmods("0755") \/ Opens \/ Finishes
    PROVE  FileInv'
<1>1. ASSUME NEW content \in FileContents, NEW mode \in {"0644", "4755"}, GuestReplaces(content, mode)
      PROVE  FileInv'
    <2> DEFINE inode == [content |-> content, whole |-> TRUE, owner |-> "user", mode |-> mode]
    <2>1. inode \in Inode /\ inode.whole
        BY DEF Inode, Owners, Modes
    <2>2. /\ Create(inode) /\ path' = Latest /\ Touches /\ UNCHANGED <<placer, read>>
        BY <1>1 DEF GuestReplaces
    <2> HIDE DEF inode
    <2>3. /\ inodes' \in [DOMAIN inodes' -> Inode] /\ DOMAIN inodes' = DOMAIN inodes \cup {Latest}
          /\ \E n \in Nat : DOMAIN inodes' = 1..n
          /\ inodes'[Latest] = inode /\ \A i \in DOMAIN inodes : inodes'[i] = inodes[i]
        BY <2>1, <2>2, InodeCreated, FileParts
    <2>4. FilesAreTyped'
        BY <2>2, <2>3, FileParts, TouchesAreTyped DEF FilesAreTyped
    <2>5. (\A p \in Placers : PlacerIsSound(placer[p]))'
        BY <2>2, <2>3, PlacersRest
    <2>6. ReachedIsWhole' /\ StreamingIsPrivate'
        BY <2>1, <2>2, <2>3, FileParts DEF FilesAreTyped, ReachedIsWhole, StreamingIsPrivate
    <2> QED BY <2>4, <2>5, <2>6 DEF FileInv
<1>2. ASSUME GuestChmods("0755") PROVE FileInv'
    <2> DEFINE inode == [inodes[path] EXCEPT !.mode = "0755"]
    <2>1. path \in DOMAIN inodes /\ inodes[path].whole /\ inodes[path] \in Inode
        BY <1>2, FileParts DEF GuestChmods, FilesAreTyped, ReachedIsWhole
    <2>2. inode \in Inode /\ inode.whole
        BY <2>1 DEF Inode, Modes
    <2>3. inodes' = [inodes EXCEPT ![path] = inode] /\ Touches /\ UNCHANGED <<path, placer, read>>
        BY <1>2 DEF GuestChmods
    <2> HIDE DEF inode
    <2>4. /\ inodes' \in [DOMAIN inodes' -> Inode] /\ DOMAIN inodes' = DOMAIN inodes
          /\ inodes'[path] = inode /\ \A j \in DOMAIN inodes \ {path} : inodes'[j] = inodes[j]
        BY <2>1, <2>2, <2>3, InodeChanged, FileParts
    <2>5. FilesAreTyped'
        BY <2>3, <2>4, FileParts, TouchesAreTyped DEF FilesAreTyped
    <2>6. \A i \in DOMAIN inodes : inodes[i].whole => inodes'[i].whole
        BY <2>2, <2>4
    <2>7. (\A p \in Placers : PlacerIsSound(placer[p]))'
        BY <2>3, <2>4, <2>6, PlacersRest
    <2>8. ReachedIsWhole' /\ StreamingIsPrivate'
        BY <2>1, <2>2, <2>3, <2>4, <2>6, FileParts DEF FilesAreTyped, ReachedIsWhole, StreamingIsPrivate
    <2> QED BY <2>5, <2>7, <2>8 DEF FileInv
<1>3. ASSUME GuestDeletes \/ Opens \/ Finishes PROVE FileInv'
    <2>1. UNCHANGED <<inodes, placer>>
        BY <1>3 DEF GuestDeletes, Opens, Finishes
    <2>2. read' \in [open : {0} \cup DOMAIN inodes, whole : BOOLEAN, count : 0..MaxReads]
        <3>1. read \in [open : {0} \cup DOMAIN inodes, whole : BOOLEAN, count : 0..MaxReads]
              /\ path \in {0} \cup DOMAIN inodes
            BY FileParts DEF FilesAreTyped
        <3>2. CASE GuestDeletes
            BY <3>1, <3>2 DEF GuestDeletes
        <3>3. CASE Opens
            <4>1. read.count + 1 \in 0..MaxReads
                BY <3>1, <3>3, FileConstants DEF Opens
            <4> QED BY <3>1, <3>3, <4>1 DEF Opens
        <3>4. CASE Finishes
            <4> DEFINE w == read.whole /\ inodes[read.open].whole
            <4>1. w \in BOOLEAN
                OBVIOUS
            <4>2. read' = [read EXCEPT !.open = 0, !.whole = w] /\ UNCHANGED inodes
                BY <3>4 DEF Finishes
            <4> HIDE DEF w
            <4> QED BY <3>1, <4>1, <4>2
        <3> QED BY <1>3, <3>2, <3>3, <3>4
    <2>5. FilesAreTyped'
        BY <1>3, <2>1, <2>2, FileParts, TouchesAreTyped DEF FilesAreTyped, GuestDeletes, Opens, Finishes
    <2>3. (\A p \in Placers : PlacerIsSound(placer[p]))'
        BY <2>1, PlacersRest
    <2>4. ReachedIsWhole' /\ StreamingIsPrivate'
        BY <1>3, <2>1, FileParts DEF FilesAreTyped, GuestDeletes, Opens, Finishes, ReachedIsWhole, StreamingIsPrivate
    <2> QED BY <2>3, <2>4, <2>5 DEF FileInv
<1> QED BY <1>1, <1>2, <1>3

(* A pass that moves, and perhaps changes a file or adds one: what is left *)
(* to show is that it and what it changed are sound.                       *)
LEMMA PassMoves ==
    ASSUME FileInv, NEW p \in Placers,
           placer' = [q \in Placers |-> placer'[q]], DOMAIN placer'[p] = PlacerFields,
           \A q \in Placers \ {p} : placer'[q] = placer[q],
           DOMAIN inodes \subseteq DOMAIN inodes', \E n \in Nat : DOMAIN inodes' = 1..n,
           inodes' \in [DOMAIN inodes' -> Inode],
           \A i \in DOMAIN inodes : inodes[i].whole => inodes'[i].whole,
           StreamingIsPrivate', PlacerIsSound(placer[p])',
           touched' \in [Placers -> {"no", "before", "since"}], read' = read,
           path' \in {0} \cup DOMAIN inodes', path' # 0 => inodes'[path'].whole
    PROVE  FileInv'
<1>1. \A q \in Placers : PlacerIsSound(placer[q])' /\ DOMAIN placer'[q] = PlacerFields
    BY OnePlacer
<1>2. FilesAreTyped'
    BY <1>1, FileParts DEF FilesAreTyped
<1>3. ReachedIsWhole'
    BY FileParts DEF ReachedIsWhole, FilesAreTyped
<1> QED BY <1>1, <1>2, <1>3 DEF FileInv

(* One that touches no file.                                               *)
LEMMA PassOnlyMoves ==
    ASSUME FileInv, NEW p \in Placers, UNCHANGED <<path, inodes, read>>,
           placer' = [q \in Placers |-> placer'[q]], DOMAIN placer'[p] = PlacerFields,
           \A q \in Placers \ {p} : placer'[q] = placer[q],
           PlacerIsSound(placer'[p]),
           touched' \in [Placers -> {"no", "before", "since"}]
    PROVE  FileInv'
<1>1. PlacerIsSound(placer[p])'
    BY DEF PlacerIsSound
<1>2. StreamingIsPrivate' /\ FilesAreTyped /\ ReachedIsWhole
    BY FileParts DEF StreamingIsPrivate
<1> QED BY <1>1, <1>2, PassMoves DEF FilesAreTyped, ReachedIsWhole

LEMMA FieldsAre ==
    ASSUME FilesAreTyped, NEW p \in Placers, NEW fields, Set(p, fields), DOMAIN fields \subseteq PlacerFields
    PROVE  LET r == placer'[p] IN
           /\ r.at = IF "at" \in DOMAIN fields THEN fields["at"] ELSE placer[p].at
           /\ r.content = IF "content" \in DOMAIN fields THEN fields["content"] ELSE placer[p].content
           /\ r.existing = IF "existing" \in DOMAIN fields THEN fields["existing"] ELSE placer[p].existing
           /\ r.staged = IF "staged" \in DOMAIN fields THEN fields["staged"] ELSE placer[p].staged
BY SetFields DEF PlacerFields

LEMMA PassHolds ==
    ASSUME FileInv, NEW p \in Placers,
           \/ \E content \in FileContents : Wants(p, content)
           \/ Compares(p) \/ ReadFails(p) \/ LooksAtFile(p) \/ Stages(p) \/ Streams(p)
           \/ Chowns(p) \/ Chmods(p) \/ Renames(p) \/ PlacingFails(p)
    PROVE  FileInv'
<1>1. /\ FilesAreTyped /\ ReachedIsWhole /\ StreamingIsPrivate /\ PlacerIsSound(placer[p])
      /\ DOMAIN placer[p] = PlacerFields /\ \A i \in DOMAIN inodes : inodes[i] \in Inode
    BY FileParts
<1>2. touched \in [Placers -> {"no", "before", "since"}] /\ path \in {0} \cup DOMAIN inodes
    BY <1>1 DEF FilesAreTyped
<1>3. ASSUME NEW content \in FileContents, Wants(p, content)
      PROVE  FileInv'
    <2>1. Set(p, [at |-> "compares", content |-> content, open |-> path, existing |-> 0, staged |-> 0,
                  blind |-> FALSE])
          /\ touched' = [touched EXCEPT ![p] = "no"] /\ UNCHANGED <<path, inodes, read>>
        BY <1>3 DEF Wants
    <2>2. /\ placer'[p].at = "compares" /\ placer'[p].content = content
          /\ placer'[p].existing = 0 /\ placer'[p].staged = 0
        BY <1>1, <2>1, FieldsAre DEF PlacerFields
    <2>3. PlacerIsSound(placer'[p])
        BY <2>2 DEF PlacerIsSound, PlacerSteps, StagedSteps
    <2> QED BY <1>1, <1>2, <2>1, <2>3, SetFields, PassOnlyMoves
<1>4. CASE PlacingFails(p) \/ (Compares(p) /\ Rests(p))
    <2>1. Rests(p) /\ UNCHANGED <<path, inodes, touched, read>>
        BY <1>4 DEF PlacingFails, Compares
    <2>2. PlacerIsSound(placer'[p])
        BY <1>1, <2>1, Rested, RestIsSound
    <2> QED BY <1>1, <1>2, <2>1, <2>2, Rested, PassOnlyMoves
<1>5. CASE ReadFails(p) \/ LooksAtFile(p) \/ (Compares(p) /\ ~Rests(p))
    <2>1. UNCHANGED <<path, inodes, touched, read>> /\ placer[p].at \in {"compares", "looks"}
        BY <1>5 DEF ReadFails, LooksAtFile, Compares
    <2>2. PICK fields :
             /\ Set(p, fields) /\ DOMAIN fields \subseteq {"at", "blind", "existing"} /\ "at" \in DOMAIN fields
             /\ fields["at"] \in {"looks", "stages"}
             /\ "existing" \in DOMAIN fields => fields["existing"] = path
        <3>1. CASE ReadFails(p)
            <4> DEFINE f == [at |-> "looks", blind |-> TRUE]
            <4>1. Set(p, f)
                BY <3>1 DEF ReadFails
            <4> QED BY <4>1
        <3>2. CASE LooksAtFile(p)
            <4> DEFINE f == [at |-> "stages", existing |-> path]
            <4>1. Set(p, f)
                BY <3>2 DEF LooksAtFile
            <4> QED BY <4>1
        <3>3. CASE Compares(p) /\ ~Rests(p)
            <4> DEFINE f == [at |-> "looks"]
            <4>1. Set(p, f)
                BY <3>3 DEF Compares
            <4> QED BY <4>1
        <3> QED BY <1>5, <3>1, <3>2, <3>3
    <2>3. /\ placer'[p].at \in {"looks", "stages"} /\ placer'[p].content = placer[p].content
          /\ placer'[p].existing \in {placer[p].existing, path} /\ placer'[p].staged = placer[p].staged
        BY <1>1, <2>2, FieldsAre DEF PlacerFields
    <2>4. PlacerIsSound(placer'[p])
        BY <1>1, <1>2, <2>1, <2>3 DEF PlacerIsSound, PlacerSteps, StagedSteps
    <2> QED BY <1>1, <1>2, <2>1, <2>2, <2>4, SetFields, PassOnlyMoves
<1>6. CASE Stages(p)
    <2> DEFINE inode == [content |-> placer[p].content, whole |-> FALSE, owner |-> "root", mode |-> "0600"]
    <2>1. inode \in Inode /\ inode.mode = "0600" /\ inode.owner = "root"
        BY <1>1, <1>6 DEF Inode, Owners, Modes, PlacerIsSound, Stages
    <2>2. /\ Create(inode) /\ Set(p, [at |-> "streams", staged |-> Latest]) /\ UNCHANGED <<path, touched, read>>
          /\ placer[p].at = "stages"
        BY <1>6 DEF Stages
    <2> HIDE DEF inode
    <2>3. /\ inodes' \in [DOMAIN inodes' -> Inode] /\ DOMAIN inodes' = DOMAIN inodes \cup {Latest}
          /\ \E n \in Nat : DOMAIN inodes' = 1..n
          /\ inodes'[Latest] = inode /\ \A i \in DOMAIN inodes : inodes'[i] = inodes[i]
        BY <1>1, <2>1, <2>2, InodeCreated
    <2>4. /\ placer'[p].at = "streams" /\ placer'[p].content = placer[p].content
          /\ placer'[p].existing = placer[p].existing /\ placer'[p].staged = Latest
        BY <1>1, <2>2, FieldsAre DEF PlacerFields
    <2>5. PlacerIsSound(placer[p])'
        BY <1>1, <2>2, <2>3, <2>4, LatestIsNext DEF PlacerIsSound, PlacerSteps, StagedSteps
    <2>6. StreamingIsPrivate'
        BY <1>1, <2>1, <2>3 DEF StreamingIsPrivate
    <2>7. path' # 0 => inodes'[path'].whole
        BY <1>1, <1>2, <2>2, <2>3 DEF ReachedIsWhole
    <2> QED BY <1>1, <1>2, <2>2, <2>3, <2>5, <2>6, <2>7, SetFields, PassMoves
<1>7. CASE Streams(p) \/ Chowns(p) \/ Chmods(p)
    <2> DEFINE i == placer[p].staged
    <2>1. i \in DOMAIN inodes /\ inodes[i] \in Inode /\ placer[p].at \in {"streams", "chowns", "chmods"}
        BY <1>1, <1>7 DEF PlacerIsSound, StagedSteps, Streams, Chowns, Chmods
    <2>2. PICK inode \in Inode :
             inode.whole /\ inodes' = [inodes EXCEPT ![i] = inode]
        <3>1. CASE Streams(p)
            <4> DEFINE new == [inodes[i] EXCEPT !.whole = TRUE]
            <4>1. new \in Inode /\ new.whole
                BY <2>1 DEF Inode
            <4>2. inodes' = [inodes EXCEPT ![i] = new]
                BY <3>1 DEF Streams
            <4> QED BY <4>1, <4>2
        <3>2. CASE Chowns(p)
            <4> DEFINE new == Given(inodes[i], inodes[placer[p].existing].owner)
            <4>1. placer[p].existing \in DOMAIN inodes /\ inodes[i].whole
                BY <1>1, <3>2 DEF PlacerIsSound, Chowns
            <4>2. inodes[placer[p].existing].owner \in Owners
                BY <1>1, <4>1 DEF Inode
            <4>3. new \in Inode /\ new.whole
                BY <2>1, <4>1, <4>2, ModesAreGiven
            <4>4. inodes' = [inodes EXCEPT ![i] = new]
                BY <3>2 DEF Chowns
            <4> QED BY <4>3, <4>4
        <3>3. CASE Chmods(p)
            <4> DEFINE mode == IF placer[p].existing = 0 THEN "0644" ELSE inodes[placer[p].existing].mode
                       new == [inodes[i] EXCEPT !.mode = mode]
            <4>1. mode \in Modes /\ inodes[i].whole
                BY <1>1, <3>3 DEF PlacerIsSound, Chmods, Inode, Modes
            <4>2. new \in Inode /\ new.whole
                BY <2>1, <4>1 DEF Inode
            <4>3. inodes' = [inodes EXCEPT ![i] = new]
                BY <3>3 DEF Chmods
            <4> QED BY <4>2, <4>3
        <3> QED BY <1>7, <3>1, <3>2, <3>3
    <2>3. /\ inodes' \in [DOMAIN inodes' -> Inode] /\ DOMAIN inodes' = DOMAIN inodes
          /\ inodes'[i] = inode /\ \A j \in DOMAIN inodes \ {i} : inodes'[j] = inodes[j]
        BY <1>1, <2>1, <2>2, InodeChanged
    <2>4. \A j \in DOMAIN inodes : inodes[j].whole => inodes'[j].whole
        BY <2>2, <2>3
    <2>5. PICK to \in {"chowns", "chmods", "renames"} :
             /\ Set(p, [at |-> to]) /\ UNCHANGED <<path, touched, read>>
             /\ to = "chowns" => placer[p].existing # 0
        BY <1>7 DEF Streams, Chowns, Chmods
    <2>6. /\ placer'[p].at = to /\ placer'[p].content = placer[p].content
          /\ placer'[p].existing = placer[p].existing /\ placer'[p].staged = i
        BY <1>1, <2>5, FieldsAre DEF PlacerFields
    <2>7. PlacerIsSound(placer[p])'
        BY <1>1, <2>1, <2>2, <2>3, <2>5, <2>6 DEF PlacerIsSound, PlacerSteps, StagedSteps
    <2>8. StreamingIsPrivate'
        BY <1>1, <2>2, <2>3 DEF StreamingIsPrivate
    <2>9. (\E n \in Nat : DOMAIN inodes' = 1..n) /\ path' \in {0} \cup DOMAIN inodes'
          /\ (path' # 0 => inodes'[path'].whole)
        BY <1>1, <1>2, <2>3, <2>4, <2>5 DEF FilesAreTyped, ReachedIsWhole
    <2> HIDE DEF i
    <2> QED BY <1>1, <1>2, <2>3, <2>4, <2>5, <2>7, <2>8, <2>9, SetFields, PassMoves
<1>8. CASE Renames(p)
    <2>1. /\ path' = placer[p].staged /\ Rests(p) /\ UNCHANGED <<inodes, read>>
          /\ touched' = [q \in Placers |-> IF q = p THEN touched[q] ELSE Touch(q)] /\ placer[p].at = "renames"
        BY <1>8 DEF Renames
    <2>2. placer[p].staged \in DOMAIN inodes /\ inodes[placer[p].staged].whole
        BY <1>1, <2>1 DEF PlacerIsSound, StagedSteps
    <2>3. touched' \in [Placers -> {"no", "before", "since"}]
        BY <1>2, <2>1 DEF Touch
    <2>4. PlacerIsSound(placer'[p])
        BY <1>1, <2>1, Rested, RestIsSound
    <2>5. PlacerIsSound(placer[p])' /\ StreamingIsPrivate' /\ inodes' \in [DOMAIN inodes' -> Inode]
          /\ (\E n \in Nat : DOMAIN inodes' = 1..n)
        BY <1>1, <2>1, <2>4 DEF PlacerIsSound, StreamingIsPrivate, FilesAreTyped
    <2> QED BY <1>1, <2>1, <2>2, <2>3, <2>5, Rested, PassMoves
<1> QED BY <1>3, <1>4, <1>5, <1>6, <1>7, <1>8

LEMMA FileInitHolds == FileInit => FileInv
<1> SUFFICES ASSUME FileInit PROVE FileInv
    OBVIOUS
<1>1. DOMAIN inodes = 1..0 /\ inodes \in [DOMAIN inodes -> Inode] /\ path = 0
    BY DEF FileInit
<1>4. read \in [open : {0} \cup DOMAIN inodes, whole : BOOLEAN, count : 0..MaxReads]
    BY FileConstants DEF FileInit
<1>5. placer = [p \in Placers |-> RestingPlacer] /\ DOMAIN RestingPlacer = PlacerFields
    BY DEF FileInit, RestingPlacer, PlacerFields
<1>6. touched \in [Placers -> {"no", "before", "since"}]
    BY DEF FileInit
<1>2. FilesAreTyped
    BY <1>1, <1>4, <1>5, <1>6 DEF FilesAreTyped
<1>3. \A p \in Placers : PlacerIsSound(placer[p])
    BY <1>2, RestIsSound DEF FileInit
<1> QED BY <1>1, <1>2, <1>3 DEF FileInv, FileInit, ReachedIsWhole, StreamingIsPrivate

LEMMA FileStutters == FileInv /\ UNCHANGED fileVars => FileInv'
BY DEF fileVars, FileInv, FilesAreTyped, PlacerIsSound, ReachedIsWhole, StreamingIsPrivate

LEMMA FileStays == FileSpec => [](FileTypeOK /\ ReadersSeeWholeFiles /\ StreamingIsPrivate)
<1>1. FileInv /\ [FileNext]_fileVars => FileInv'
    BY GuestHolds, PassHolds, FileStutters DEF FileNext
<1> QED BY <1>1, FileInitHolds, FileInvKeeps, PTL DEF FileSpec

-----------------------------------------------------------------------------
(* An installed skill.                                                     *)

InstallSteps == {"off", "next", "clears", "creates", "main", "script", "record", "swaps", "moved", "removes"}
PlaceSteps == InstallSteps \ {"off", "next"}
Changes == {"install", "replace", "update", "none"}
InstallStates ==
    [at : InstallSteps, source : SkillSources \union {"none"}, force : BOOLEAN,
     change : UNION {[S -> Changes] : S \in SUBSET SkillPlaces},
     place : SkillPlaces \union {"none"}, since : SUBSET SkillPlaces]

SkillsAreTyped == SkillTypeOK /\ install \in [Installs -> InstallStates]

(* One install runs at a time.                                             *)
OneInstalls == \A i, j \in Installing : i = j

(* What stands beside a place an install is at is what it wrote place.     *)
StagedSoFar(i) ==
    LET staged == staging[i][Place(i)]
        v == Source(i)
    IN  /\ install[i].at # "off" => v \in SkillSources
        /\ install[i].at \in PlaceSteps => Place(i) \in SkillPlaces
        /\ install[i].at = "main" => staged = Bare
        /\ install[i].at = "script" => staged = Holds(v, "none", "none")
        /\ install[i].at = "record" => staged = Holds(v, v, "none")
        /\ install[i].at \in {"swaps", "moved"} => staged = Whole(v)

(* What was moved aside can go back to its place.                          *)
AsideCanReturn(i) ==
    install[i].at = "moved" =>
        LET moved == aside[i][Place(i)] IN
        /\ moved # Nowhere
        /\ moved.kind = "directory" /\ ~edited[Place(i)] => \E v \in SkillSources : moved = Whole(v)

SkillInv ==
    /\ SkillsAreTyped /\ OneInstalls
    /\ \A i \in Installs : StagedSoFar(i) /\ AsideCanReturn(i)
    /\ NeverHalfASkill /\ FailureLeavesACopy

LEMMA HeldEntries ==
    ASSUME NEW main \in Contents, NEW script \in Contents, NEW digest \in SkillSources \union {"none"}
    PROVE  /\ Holds(main, script, digest) \in Entries /\ Holds(main, script, digest).kind = "directory"
           /\ Holds(main, script, digest) # Nowhere /\ Holds(main, script, digest) # Linked
<1>1. [main |-> main, script |-> script, digest |-> digest] \in Directory
    BY DEF Directory
<1>2. Holds(main, script, digest).kind = "directory"
    BY DEF Holds
<1> QED BY <1>1, <1>2 DEF Entries, Holds, Nowhere, Linked

LEMMA EntryIs ==
    ASSUME NEW e \in Entries
    PROVE  \/ e = Nowhere \/ e = Linked
           \/ \E main, script \in Contents, digest \in SkillSources \union {"none"} : e = Holds(main, script, digest)
BY DEF Entries, Directory

LEMMA SomeEntries ==
    /\ Nowhere \in Entries /\ Linked \in Entries /\ Nowhere # Linked
    /\ Nowhere.kind = "nothing" /\ Linked.kind = "link" /\ Bare \in Entries /\ Bare # Linked /\ Bare # Nowhere
    /\ \A v \in SkillSources : /\ Whole(v) \in Entries /\ Whole(v) # Linked /\ Whole(v) # Nowhere
                               /\ Whole(v).kind = "directory"
                               /\ Holds(v, v, "none") \in Entries /\ Holds(v, v, "none") # Linked
                               /\ Holds(v, "none", "none") \in Entries /\ Holds(v, "none", "none") # Linked
    /\ Holds("mine", "none", "none") \in Entries
<1>1. /\ Nowhere.kind = "nothing" /\ Linked.kind = "link" /\ Nowhere \in Entries /\ Linked \in Entries
    BY DEF Nowhere, Linked, Entries
<1>2. /\ "none" \in Contents /\ "mine" \in Contents /\ SkillSources \subseteq Contents
    BY DEF Contents
<1>3. Bare \in Entries /\ Bare # Linked /\ Bare # Nowhere
    BY <1>2, HeldEntries DEF Bare
<1>4. ASSUME NEW v \in SkillSources
      PROVE  /\ Whole(v) \in Entries /\ Whole(v) # Linked /\ Whole(v) # Nowhere /\ Whole(v).kind = "directory"
             /\ Holds(v, v, "none") \in Entries /\ Holds(v, v, "none") # Linked
             /\ Holds(v, "none", "none") \in Entries /\ Holds(v, "none", "none") # Linked
    BY <1>2, HeldEntries DEF Whole
<1>5. Holds("mine", "none", "none") \in Entries
    BY <1>2, HeldEntries
<1> QED BY <1>1, <1>3, <1>4, <1>5

LEMMA SkillParts ==
    ASSUME SkillInv
    PROVE  /\ skill \in [SkillPlaces -> Entries]
           /\ staging \in [Installs -> [SkillPlaces -> Entries \ {Linked}]]
           /\ aside \in [Installs -> [SkillPlaces -> Entries]]
           /\ install \in [Installs -> InstallStates]
           /\ edited \in [SkillPlaces -> BOOLEAN] /\ owed \in [SkillPlaces -> BOOLEAN] /\ touches \in 0..MaxTouches
           /\ \A i \in Installs : StagedSoFar(i) /\ AsideCanReturn(i) /\ install[i].at \in InstallSteps
           /\ OneInstalls /\ NeverHalfASkill /\ FailureLeavesACopy
BY DEF SkillInv, SkillsAreTyped, SkillTypeOK, InstallStates

(* Only one install moves, so the others have nothing to keep right.       *)
LEMMA OneMoves ==
    ASSUME SkillInv, NEW i \in Installs, NEW r \in InstallStates, i \in Installing \/ Installing = {},
           install' = [install EXCEPT ![i] = r],
           skill' \in [SkillPlaces -> Entries],
           staging' \in [Installs -> [SkillPlaces -> Entries \ {Linked}]],
           aside' \in [Installs -> [SkillPlaces -> Entries]],
           edited' \in [SkillPlaces -> BOOLEAN], owed' \in [SkillPlaces -> BOOLEAN], touches' \in 0..MaxTouches,
           StagedSoFar(i)', AsideCanReturn(i)', NeverHalfASkill',
           \A p \in SkillPlaces : owed'[p] /\ ~(r.place = p /\ r.at = "moved") => skill'[p] # Nowhere
    PROVE  SkillInv'
<1>1. /\ install' \in [Installs -> InstallStates] /\ install'[i] = r
      /\ \A j \in Installs \ {i} : install'[j] = install[j]
    BY SkillParts
<1>2. \A j \in Installs \ {i} : install[j].at = "off"
    BY SkillParts DEF OneInstalls, Installing
<1>3. SkillsAreTyped'
    BY <1>1 DEF SkillsAreTyped, SkillTypeOK, InstallStates
<1>4. OneInstalls'
    BY <1>1, <1>2 DEF OneInstalls, Installing
<1>5. \A j \in Installs : StagedSoFar(j)' /\ AsideCanReturn(j)'
    BY <1>1, <1>2 DEF StagedSoFar, AsideCanReturn, PlaceSteps
<1>6. FailureLeavesACopy'
    <2> SUFFICES ASSUME NEW p \in SkillPlaces, owed'[p],
                        \A j \in Installing' : ~(install'[j].place = p /\ install'[j].at = "moved")
                 PROVE  skill'[p] # Nowhere
        BY DEF FailureLeavesACopy, Place
    <2>1. ~(r.place = p /\ r.at = "moved")
        BY <1>1 DEF Installing
    <2> QED BY <2>1
<1> QED BY <1>3, <1>4, <1>5, <1>6 DEF SkillInv

(* An install that goes on, or ends, without a move in a place.            *)
LEMMA QuietMoves ==
    ASSUME SkillInv, NEW i \in Installs, NEW r \in InstallStates, i \in Installing \/ Installing = {},
           install' = [install EXCEPT ![i] = r],
           install[i].at # "moved", r.at # "moved", UNCHANGED <<skill, edited, owed, touches>>,
           staging' \in [Installs -> [SkillPlaces -> Entries \ {Linked}]],
           aside' \in [Installs -> [SkillPlaces -> Entries]],
           StagedSoFar(i)'
    PROVE  SkillInv'
<1>1. install'[i] = r
    BY SkillParts
<1>2. AsideCanReturn(i)' /\ NeverHalfASkill'
    BY <1>1, SkillParts DEF AsideCanReturn, NeverHalfASkill
<1>3. \A j \in Installing : install[j].at # "moved"
    BY SkillParts DEF OneInstalls, Installing
<1>4. \A p \in SkillPlaces : owed[p] => skill[p] # Nowhere
    BY <1>3, SkillParts DEF FailureLeavesACopy
<1> QED BY <1>2, <1>4, SkillParts, OneMoves

(* What an install writes in its place of what stands beside them.         *)
LEMMA PlaceWrites ==
    ASSUME NEW S, NEW f \in [Installs -> [SkillPlaces -> S]], NEW i \in Installs, NEW p \in SkillPlaces, NEW e \in S
    PROVE  /\ [f EXCEPT ![i][p] = e] \in [Installs -> [SkillPlaces -> S]]
           /\ [f EXCEPT ![i][p] = e][i][p] = e
OBVIOUS

LEMMA StepsOn ==
    ASSUME SkillInv, NEW i \in Installs, NEW at \in InstallSteps, At_(i, at)
    PROVE  \E r \in InstallStates :
              /\ install' = [install EXCEPT ![i] = r] /\ install'[i] = r /\ r.at = at
              /\ r.place = Place(i) /\ r.source = Source(i)
<1> DEFINE r == [install[i] EXCEPT !.at = at]
<1>1. install[i] \in InstallStates
    BY SkillParts
<1>2. r \in InstallStates /\ r.at = at /\ r.place = Place(i) /\ r.source = Source(i)
    BY <1>1 DEF InstallStates, Place, Source
<1>3. install' = [install EXCEPT ![i] = r] /\ install'[i] = r
    BY SkillParts DEF At_
<1> QED BY <1>2, <1>3

LEMMA Leaves ==
    ASSUME SkillInv, NEW i \in Installs, Gone(i)
    PROVE  /\ Off_ \in InstallStates /\ Off_.at = "off"
           /\ install' = [install EXCEPT ![i] = Off_] /\ install'[i] = Off_
           /\ StagedSoFar(i)' /\ AsideCanReturn(i)'
<1>1. [p \in {} |-> "none"] \in [{} -> Changes] /\ {} \in SUBSET SkillPlaces
    OBVIOUS
<1>2. Off_ \in InstallStates /\ Off_.at = "off"
    BY <1>1 DEF Off_, InstallStates, InstallSteps
<1>3. install' = [install EXCEPT ![i] = Off_] /\ install'[i] = Off_
    BY SkillParts DEF Gone
<1> QED BY <1>2, <1>3 DEF StagedSoFar, AsideCanReturn, PlaceSteps

LEMMA PlansHolds ==
    ASSUME SkillInv, IsFiniteSet(Installs), AtOnce <= 1, NEW i \in Installs, NEW v \in SkillSources,
           NEW force \in BOOLEAN, NEW hs \in ChosenHarnesses, Plans(i, v, force, hs)
    PROVE  SkillInv'
<1> DEFINE change == [p \in PlacesOf(hs) |-> ChangeAt(v, p)]
           r == [Off_ EXCEPT !.at = "next", !.source = v, !.force = force, !.change = change]
<1>1. PlacesOf(hs) \in SUBSET SkillPlaces
    BY DEF ChosenHarnesses, PlacesOf, SkillPlaces
<1>2. \A p \in SkillPlaces : ChangeAt(v, p) \in Changes
    BY DEF ChangeAt, compare, Changes
<1>3. change \in [PlacesOf(hs) -> Changes]
    BY <1>1, <1>2
<1>4. r \in InstallStates /\ r.at = "next" /\ r.source = v
    BY <1>1, <1>3 DEF InstallStates, InstallSteps, Off_
<1>5. install' = [install EXCEPT ![i] = r] /\ UNCHANGED <<skill, staging, aside, edited, owed, touches>>
      /\ Cardinality(Installing) < AtOnce /\ install[i].at = "off"
    BY DEF Plans
<1> HIDE DEF r, change
<1>6. Installing = {}
    <2>1. IsFiniteSet(Installing)
        BY FS_Subset DEF Installing
    <2>2. Cardinality(Installing) \in Nat
        BY <2>1, FS_CardinalityType
    <2>3. Cardinality(Installing) = 0
        BY <1>5, <2>2, SkillConstants
    <2> QED BY <2>1, <2>3, FS_EmptySet
<1>7. install'[i] = r
    BY <1>5, SkillParts
<1>8. StagedSoFar(i)'
    BY <1>4, <1>7 DEF StagedSoFar, PlaceSteps, Source
<1> QED BY <1>4, <1>5, <1>6, <1>8, SkillParts, QuietMoves

LEMMA NextPlaceHolds ==
    ASSUME SkillInv, NEW i \in Installs, NextPlace(i)
    PROVE  SkillInv'
<1>1. /\ install[i].at = "next" /\ i \in Installing /\ Source(i) \in SkillSources
      /\ UNCHANGED <<skill, staging, aside, edited, owed, touches>>
    BY SkillParts DEF NextPlace, Installing, StagedSoFar
<1>2. CASE Gone(i)
    BY <1>1, <1>2, Leaves, SkillParts, QuietMoves
<1>3. CASE ~Gone(i)
    <2>1. PICK p \in Remaining(i) :
             install' = [install EXCEPT ![i].at = "clears", ![i].place = p, ![i].change[p] = "none"]
        BY <1>3 DEF NextPlace
    <2>2. install[i] \in InstallStates
        BY SkillParts
    <2>3. PICK S \in SUBSET SkillPlaces : install[i].change \in [S -> Changes]
        <3>1. install[i].change \in UNION {[S -> Changes] : S \in SUBSET SkillPlaces}
            BY <2>2 DEF InstallStates
        <3> QED BY <3>1
    <2>4. p \in SkillPlaces
        BY <2>3 DEF Remaining
    <2> DEFINE c == [install[i].change EXCEPT ![p] = "none"]
               r == [install[i] EXCEPT !.at = "clears", !.place = p, !.change = c]
    <2>9. c \in UNION {[T -> Changes] : T \in SUBSET SkillPlaces}
        <3>1. c \in [S -> Changes]
            BY <2>3 DEF Changes
        <3> QED BY <3>1
    <2>6. install' = [install EXCEPT ![i] = r]
        BY <2>1
    <2> HIDE DEF c
    <2>5. r \in InstallStates /\ r.at = "clears" /\ r.place = p /\ r.source = Source(i)
        BY <2>2, <2>4, <2>9 DEF InstallStates, InstallSteps, Source
    <2> HIDE DEF r
    <2>7. install'[i] = r
        BY <2>6, SkillParts
    <2>8. StagedSoFar(i)'
        BY <1>1, <2>4, <2>5, <2>7 DEF StagedSoFar, PlaceSteps, InstallSteps, Source, Place
    <2> QED BY <1>1, <2>5, <2>6, <2>8, SkillParts, QuietMoves
<1> QED BY <1>2, <1>3

(* The steps that assemble a copy.                                         *)
LEMMA StagingHolds ==
    ASSUME SkillInv, NEW i \in Installs,
           Clears(i) \/ CreatesStaging(i) \/ stage_main(i) \/ stage_script(i) \/ stage_record(i)
    PROVE  SkillInv'
<1> DEFINE there == Place(i)
           v == Source(i)
<1>1. /\ install[i].at \in {"clears", "creates", "main", "script", "record"} /\ i \in Installing
      /\ UNCHANGED <<skill, edited, owed, touches>>
    BY DEF Clears, CreatesStaging, stage_main, stage_script, stage_record, Installing
<1>2. StagedSoFar(i) /\ there \in SkillPlaces /\ v \in SkillSources
    BY <1>1, SkillParts DEF StagedSoFar, PlaceSteps, InstallSteps
<1>3. CASE Clears(i)
    <2>1. /\ staging' = [j \in Installs |-> [staging[j] EXCEPT ![there] = Nowhere]]
          /\ aside' = [j \in Installs |-> [aside[j] EXCEPT ![there] = Nowhere]] /\ At_(i, "creates")
        BY <1>3 DEF Clears
    <2>2. /\ staging' \in [Installs -> [SkillPlaces -> Entries \ {Linked}]]
          /\ aside' \in [Installs -> [SkillPlaces -> Entries]]
        BY <1>2, <2>1, SkillParts, SomeEntries
    <2>3. PICK r \in InstallStates :
             /\ install' = [install EXCEPT ![i] = r] /\ install'[i] = r /\ r.at = "creates"
             /\ r.place = Place(i) /\ r.source = Source(i)
        BY <2>1, StepsOn DEF InstallSteps
    <2>4. StagedSoFar(i)'
        BY <1>2, <2>3 DEF StagedSoFar, Place, Source
    <2> QED BY <1>1, <2>2, <2>3, <2>4, QuietMoves
<1>4. CASE CreatesStaging(i) \/ stage_main(i) \/ stage_script(i) \/ stage_record(i)
    <2>1. PICK e \in Entries \ {Linked}, at \in {"main", "script", "record", "swaps"} :
             /\ staging' = [staging EXCEPT ![i][there] = e] /\ At_(i, at) /\ UNCHANGED aside
             /\ at = "main" => e = Bare
             /\ at = "script" => e = Holds(v, "none", "none")
             /\ at = "record" => e = Holds(v, v, "none")
             /\ at = "swaps" => e = Whole(v)
        <3>1. CASE CreatesStaging(i)
            BY <3>1, SomeEntries DEF CreatesStaging
        <3>2. CASE stage_main(i)
            <4>1. StagedNow(i) = Bare
                BY <1>2, <3>2, SomeEntries DEF stage_main, StagedNow, StagedSoFar
            <4>2. [StagedNow(i) EXCEPT !.main = v] = Holds(v, "none", "none")
                BY <4>1 DEF Bare, Holds
            <4> QED BY <1>2, <3>2, <4>2, SomeEntries DEF stage_main
        <3>3. CASE stage_script(i)
            <4>1. StagedNow(i) = Holds(v, "none", "none")
                BY <1>2, <3>3, HeldEntries DEF stage_script, StagedNow, StagedSoFar, Holds, Nowhere
            <4>2. [StagedNow(i) EXCEPT !.script = v] = Holds(v, v, "none")
                BY <4>1 DEF Holds
            <4> QED BY <1>2, <3>3, <4>2, SomeEntries DEF stage_script
        <3>4. CASE stage_record(i)
            <4>1. staging[i][there] = Holds(v, v, "none")
                BY <1>2, <3>4 DEF stage_record, StagedSoFar
            <4>2. [staging[i][there] EXCEPT !.digest = v] = Whole(v)
                BY <4>1 DEF Holds, Whole
            <4>3. staging' = [staging EXCEPT ![i][there] = [staging[i][there] EXCEPT !.digest = v]]
                  /\ At_(i, "swaps") /\ UNCHANGED aside
                BY <3>4 DEF stage_record
            <4> QED BY <1>2, <4>2, <4>3, SomeEntries
        <3> QED BY <1>4, <3>1, <3>2, <3>3, <3>4
    <2>2. /\ staging' \in [Installs -> [SkillPlaces -> Entries \ {Linked}]] /\ staging'[i][there] = e
          /\ aside' \in [Installs -> [SkillPlaces -> Entries]]
        BY <1>2, <2>1, SkillParts, PlaceWrites
    <2>3. PICK r \in InstallStates :
             /\ install' = [install EXCEPT ![i] = r] /\ install'[i] = r /\ r.at = at
             /\ r.place = Place(i) /\ r.source = Source(i)
        BY <2>1, StepsOn DEF InstallSteps
    <2>4. StagedSoFar(i)'
        BY <1>2, <2>1, <2>2, <2>3 DEF StagedSoFar, Place, Source
    <2> QED BY <1>1, <2>1, <2>2, <2>3, <2>4, QuietMoves
<1> QED BY <1>3, <1>4

LEMMA SwapParts ==
    ASSUME SkillInv, NEW i \in Installs, install[i].at \in {"swaps", "moved"}
    PROVE  /\ i \in Installing /\ Place(i) \in SkillPlaces /\ Source(i) \in SkillSources
           /\ staging[i][Place(i)] = Whole(Source(i)) /\ AsideCanReturn(i)
           /\ \A p \in SkillPlaces : owed[p] /\ p # Place(i) => skill[p] # Nowhere
<1>1. StagedSoFar(i) /\ AsideCanReturn(i) /\ i \in Installing /\ OneInstalls /\ FailureLeavesACopy
    BY SkillParts DEF Installing
<1>2. \A j \in Installing : j = i
    BY <1>1 DEF OneInstalls
<1>3. \A p \in SkillPlaces : owed[p] /\ p # Place(i) => skill[p] # Nowhere
    BY <1>1, <1>2 DEF FailureLeavesACopy
<1> QED BY <1>1, <1>3 DEF StagedSoFar, PlaceSteps, InstallSteps

LEMMA MovesAsideHolds ==
    ASSUME SkillInv, NEW i \in Installs, MovesAside(i)
    PROVE  SkillInv'
<1> DEFINE there == Place(i)
<1>1. /\ install[i].at = "swaps" /\ skill[there] # Nowhere
      /\ aside' = [aside EXCEPT ![i][there] = skill[there]]
      /\ skill' = [skill EXCEPT ![there] = Nowhere]
      /\ At_(i, "moved") /\ UNCHANGED <<staging, edited, owed, touches>>
    BY DEF MovesAside
<1>2. PICK r \in InstallStates :
         /\ install' = [install EXCEPT ![i] = r] /\ install'[i] = r /\ r.at = "moved"
         /\ r.place = Place(i) /\ r.source = Source(i)
    BY <1>1, StepsOn DEF InstallSteps
<1>3. there \in SkillPlaces /\ i \in Installing
    BY <1>1, SwapParts
<1>4. /\ aside' \in [Installs -> [SkillPlaces -> Entries]] /\ aside'[i][there] = skill[there]
      /\ skill' \in [SkillPlaces -> Entries]
    BY <1>1, <1>3, SkillParts, SomeEntries, PlaceWrites
<1>5. StagedSoFar(i)'
    BY <1>1, <1>2, SwapParts DEF StagedSoFar, Place, Source
<1>6. AsideCanReturn(i)'
    BY <1>1, <1>2, <1>3, <1>4, SkillParts DEF AsideCanReturn, NeverHalfASkill, Place
<1>7. \A p \in SkillPlaces : p # there => skill'[p] = skill[p]
    BY <1>1, SkillParts
<1>8. skill'[there].kind # "directory"
    BY <1>1, <1>3, SkillParts, SomeEntries
<1>9. NeverHalfASkill'
    BY <1>1, <1>7, <1>8, SkillParts DEF NeverHalfASkill
<1>10. \A p \in SkillPlaces : owed'[p] /\ ~(r.place = p /\ r.at = "moved") => skill'[p] # Nowhere
    BY <1>1, <1>2, <1>7, SwapParts
<1> QED BY <1>1, <1>2, <1>3, <1>4, <1>5, <1>6, <1>9, <1>10, SkillParts, OneMoves

LEMMA RenamesInHolds ==
    ASSUME SkillInv, NEW i \in Installs, RenamesIn(i)
    PROVE  SkillInv'
<1> DEFINE there == Place(i)
           v == Source(i)
           at == IF install[i].at = "moved" THEN "removes" ELSE "next"
<1>1. /\ install[i].at \in {"swaps", "moved"}
      /\ skill' = [skill EXCEPT ![there] = staging[i][there]]
      /\ staging' = [staging EXCEPT ![i][there] = Nowhere]
      /\ edited' = [edited EXCEPT ![there] = FALSE] /\ owed' = [owed EXCEPT ![there] = TRUE]
      /\ At_(i, at) /\ UNCHANGED <<aside, touches>>
    BY DEF RenamesIn
<1>2. at \in {"removes", "next"}
    OBVIOUS
<1> HIDE DEF at
<1>3. PICK r \in InstallStates :
         /\ install' = [install EXCEPT ![i] = r] /\ install'[i] = r /\ r.at = at
         /\ r.place = Place(i) /\ r.source = Source(i)
    BY <1>1, <1>2, StepsOn DEF InstallSteps
<1>4. /\ there \in SkillPlaces /\ i \in Installing /\ v \in SkillSources /\ staging[i][there] = Whole(v)
      /\ \A p \in SkillPlaces : owed[p] /\ p # there => skill[p] # Nowhere
    BY <1>1, SwapParts
<1>5. /\ staging' \in [Installs -> [SkillPlaces -> Entries \ {Linked}]]
      /\ skill' \in [SkillPlaces -> Entries] /\ skill'[there] = Whole(v)
      /\ edited' \in [SkillPlaces -> BOOLEAN] /\ owed' \in [SkillPlaces -> BOOLEAN]
      /\ \A p \in SkillPlaces : p # there => skill'[p] = skill[p] /\ edited'[p] = edited[p] /\ owed'[p] = owed[p]
    BY <1>1, <1>4, SkillParts, SomeEntries, PlaceWrites
<1>6. StagedSoFar(i)' /\ AsideCanReturn(i)'
    BY <1>2, <1>3, <1>4 DEF StagedSoFar, AsideCanReturn, Place, Source
<1>7. NeverHalfASkill'
    BY <1>4, <1>5, SkillParts DEF NeverHalfASkill
<1>8. \A p \in SkillPlaces : owed'[p] /\ ~(r.place = p /\ r.at = "moved") => skill'[p] # Nowhere
    BY <1>4, <1>5, SomeEntries
<1> QED BY <1>1, <1>3, <1>4, <1>5, <1>6, <1>7, <1>8, SkillParts, OneMoves

LEMMA RemovesAsideHolds ==
    ASSUME SkillInv, NEW i \in Installs, RemovesAside(i)
    PROVE  SkillInv'
<1>1. /\ install[i].at = "removes" /\ i \in Installing /\ At_(i, "next")
      /\ aside' = [aside EXCEPT ![i][Place(i)] = Nowhere] /\ UNCHANGED <<skill, staging, edited, owed, touches>>
    BY DEF RemovesAside, Installing
<1>2. PICK r \in InstallStates :
         /\ install' = [install EXCEPT ![i] = r] /\ install'[i] = r /\ r.at = "next"
         /\ r.place = Place(i) /\ r.source = Source(i)
    BY <1>1, StepsOn DEF InstallSteps
<1>3. StagedSoFar(i) /\ Place(i) \in SkillPlaces /\ Source(i) \in SkillSources
    BY <1>1, SkillParts DEF StagedSoFar, PlaceSteps, InstallSteps
<1>4. aside' \in [Installs -> [SkillPlaces -> Entries]]
    BY <1>1, <1>3, SkillParts, SomeEntries, PlaceWrites
<1>5. StagedSoFar(i)'
    BY <1>2, <1>3 DEF StagedSoFar, PlaceSteps, Source
<1> QED BY <1>1, <1>2, <1>4, <1>5, SkillParts, QuietMoves

LEMMA FailuresHold ==
    ASSUME SkillInv, NEW i \in Installs, InstallFails(i) \/ (Dies(i) /\ install[i].at # "moved")
    PROVE  SkillInv'
<1>1. /\ Gone(i) /\ i \in Installing /\ install[i].at # "moved" /\ UNCHANGED <<skill, aside, edited, owed, touches>>
    BY DEF InstallFails, Dies, Steps_, Installing
<1>2. staging' \in [Installs -> [SkillPlaces -> Entries \ {Linked}]]
    <2>1. CASE Dies(i)
        BY <2>1, SkillParts DEF Dies
    <2>2. CASE InstallFails(i)
        <3>1. Place(i) \in SkillPlaces
            BY <2>2, SkillParts DEF InstallFails, Steps_, StagedSoFar, PlaceSteps, InstallSteps
        <3>2. PICK left \in {staging[i][Place(i)], Nowhere} : staging' = [staging EXCEPT ![i][Place(i)] = left]
            BY <2>2 DEF InstallFails
        <3>3. left \in Entries \ {Linked}
            BY <3>1, <3>2, SkillParts, SomeEntries
        <3> QED BY <3>1, <3>2, <3>3, SkillParts, PlaceWrites
    <2> QED BY <2>1, <2>2
<1> QED BY <1>1, <1>2, Leaves, SkillParts, QuietMoves

(* What failed or died between the two renames.                            *)
LEMMA HalfwayFailuresHold ==
    ASSUME SkillInv, NEW i \in Installs, RenameFails(i) \/ (Dies(i) /\ install[i].at = "moved")
    PROVE  SkillInv'
<1> DEFINE there == Place(i)
<1>1. /\ Gone(i) /\ install[i].at = "moved" /\ UNCHANGED <<edited, touches>>
    BY DEF RenameFails, Dies
<1>2. /\ there \in SkillPlaces /\ i \in Installing /\ AsideCanReturn(i)
      /\ \A p \in SkillPlaces : owed[p] /\ p # there => skill[p] # Nowhere
    BY <1>1, SwapParts
<1>3. staging' \in [Installs -> [SkillPlaces -> Entries \ {Linked}]]
    <2>1. CASE Dies(i)
        BY <2>1, SkillParts DEF Dies
    <2>2. CASE RenameFails(i)
        <3>1. staging' = [staging EXCEPT ![i][there] = Nowhere]
            BY <2>2 DEF RenameFails
        <3> QED BY <1>2, <3>1, SkillParts, SomeEntries, PlaceWrites
    <2> QED BY <2>1, <2>2
<1>4. CASE owed' = [owed EXCEPT ![there] = FALSE] /\ UNCHANGED <<skill, aside>>
    <2>1. owed' \in [SkillPlaces -> BOOLEAN] /\ ~owed'[there] /\ \A p \in SkillPlaces : p # there => owed'[p] = owed[p]
        BY <1>2, <1>4, SkillParts
    <2>2. NeverHalfASkill'
        BY <1>1, <1>4, SkillParts DEF NeverHalfASkill
    <2>3. \A p \in SkillPlaces : owed'[p] => skill'[p] # Nowhere
        BY <1>2, <1>4, <2>1
    <2> QED BY <1>1, <1>2, <1>3, <1>4, <2>1, <2>2, <2>3, Leaves, SkillParts, OneMoves
<1>5. CASE /\ aside[i][there] # Nowhere
           /\ skill' = [skill EXCEPT ![there] = aside[i][there]]
           /\ aside' = [aside EXCEPT ![i][there] = Nowhere] /\ UNCHANGED owed
    <2>1. /\ skill' \in [SkillPlaces -> Entries] /\ aside' \in [Installs -> [SkillPlaces -> Entries]]
          /\ skill'[there] = aside[i][there] /\ \A p \in SkillPlaces : p # there => skill'[p] = skill[p]
        BY <1>2, <1>5, SkillParts, SomeEntries, PlaceWrites
    <2>2. NeverHalfASkill'
        BY <1>1, <1>2, <2>1, SkillParts DEF NeverHalfASkill, AsideCanReturn
    <2>3. \A p \in SkillPlaces : owed'[p] => skill'[p] # Nowhere
        BY <1>2, <1>5, <2>1
    <2> QED BY <1>1, <1>2, <1>3, <1>5, <2>1, <2>2, <2>3, Leaves, SkillParts, OneMoves
<1> QED BY <1>1, <1>4, <1>5 DEF RenameFails, Dies

LEMMA TouchesHold ==
    ASSUME SkillInv, NEW there \in SkillPlaces, Touches_(there)
    PROVE  SkillInv'
<1>1. PICK e :
         /\ e \in {Nowhere, Linked, Bare, Holds("mine", "none", "none")}
                 \union {Holds(v, v, "none") : v \in SkillSources}
                 \union (IF skill[there].kind = "directory" THEN {[skill[there] EXCEPT !.script = "mine"]} ELSE {})
         /\ skill' = [skill EXCEPT ![there] = e] /\ owed' = [owed EXCEPT ![there] = e # Nowhere]
    BY DEF Touches_
<1>2. /\ touches < MaxTouches /\ touches' = touches + 1 /\ edited' = [edited EXCEPT ![there] = TRUE]
      /\ install' = [i \in Installs |-> IF i \in Installing
                                         THEN [install[i] EXCEPT !.since = @ \union {there}] ELSE install[i]]
      /\ UNCHANGED <<staging, aside>>
    BY DEF Touches_
<1>3. e \in Entries
    <2>1. CASE e = [skill[there] EXCEPT !.script = "mine"] /\ skill[there].kind = "directory"
        <3>1. PICK main, script \in Contents, digest \in SkillSources \union {"none"} :
                 skill[there] = Holds(main, script, digest)
            BY <2>1, SkillParts, EntryIs, SomeEntries
        <3>2. e = Holds(main, "mine", digest)
            BY <2>1, <3>1 DEF Holds
        <3> QED BY <3>2, HeldEntries DEF Contents
    <2> QED BY <1>1, <2>1, SomeEntries
<1>4. /\ skill' \in [SkillPlaces -> Entries] /\ edited' \in [SkillPlaces -> BOOLEAN] /\ edited'[there]
      /\ skill'[there] = e
      /\ \A p \in SkillPlaces : p # there => skill'[p] = skill[p] /\ edited'[p] = edited[p]
    BY <1>1, <1>2, <1>3, SkillParts
<1>5. /\ owed' \in [SkillPlaces -> BOOLEAN] /\ (owed'[there] => e # Nowhere)
      /\ \A p \in SkillPlaces : p # there => owed'[p] = owed[p]
    <2> DEFINE b == e # Nowhere
    <2>1. b \in BOOLEAN /\ owed' = [owed EXCEPT ![there] = b] /\ (b => e # Nowhere)
        BY <1>1
    <2> HIDE DEF b
    <2> QED BY <2>1, SkillParts
<1>6. ASSUME NEW i \in Installs
      PROVE  /\ install'[i] \in InstallStates /\ install'[i].at = install[i].at
             /\ install'[i].place = install[i].place /\ install'[i].source = install[i].source
    <2>1. install[i] \in InstallStates
        BY SkillParts
    <2>2. [install[i] EXCEPT !.since = @ \union {there}] \in InstallStates
        BY <2>1 DEF InstallStates
    <2> QED BY <1>2, <2>1, <2>2 DEF InstallStates
<1>7. install' \in [Installs -> InstallStates]
    BY <1>2, <1>6
<1>8. touches' \in 0..MaxTouches
    BY <1>2, SkillParts, SkillConstants
<1>9. SkillsAreTyped'
    BY <1>2, <1>4, <1>5, <1>7, <1>8, SkillParts DEF SkillsAreTyped, SkillTypeOK, InstallStates
<1>10. OneInstalls'
    BY <1>6, SkillParts DEF OneInstalls, Installing
<1>11. \A i \in Installs : StagedSoFar(i)'
    BY <1>2, <1>6, SkillParts DEF StagedSoFar, Place, Source
<1>12. \A i \in Installs : AsideCanReturn(i)'
    <2> SUFFICES ASSUME NEW i \in Installs PROVE AsideCanReturn(i)'
        OBVIOUS
    <2>1. AsideCanReturn(i) /\ (install[i].at = "moved" => Place(i) \in SkillPlaces)
        BY SkillParts, SwapParts
    <2> QED BY <1>2, <1>4, <1>6, <2>1 DEF AsideCanReturn, Place
<1>13. NeverHalfASkill'
    BY <1>4, SkillParts DEF NeverHalfASkill
<1>14. FailureLeavesACopy'
    <2> SUFFICES ASSUME NEW p \in SkillPlaces, owed'[p],
                        \A i \in Installing' : ~(install'[i].place = p /\ install'[i].at = "moved")
                 PROVE  skill'[p] # Nowhere
        BY DEF FailureLeavesACopy, Place
    <2>1. \A i \in Installing : ~(Place(i) = p /\ install[i].at = "moved")
        BY <1>6 DEF Installing, Place
    <2>2. owed[p] => skill[p] # Nowhere
        BY <2>1, SkillParts DEF FailureLeavesACopy
    <2> QED BY <1>4, <1>5, <2>2
<1> QED BY <1>9, <1>10, <1>11, <1>12, <1>13, <1>14 DEF SkillInv

LEMMA SkillInitHolds == SkillInit => SkillInv
<1> SUFFICES ASSUME SkillInit PROVE SkillInv
    OBVIOUS
<1>1. /\ skill = [p \in SkillPlaces |-> Nowhere] /\ touches = 0
      /\ staging = [i \in Installs |-> [p \in SkillPlaces |-> Nowhere]]
      /\ aside = [i \in Installs |-> [p \in SkillPlaces |-> Nowhere]]
      /\ install = [i \in Installs |-> Off_]
      /\ edited = [p \in SkillPlaces |-> FALSE] /\ owed = [p \in SkillPlaces |-> FALSE]
    BY DEF SkillInit
<1>2. [p \in {} |-> "none"] \in [{} -> Changes] /\ {} \in SUBSET SkillPlaces
    OBVIOUS
<1>3. Off_ \in InstallStates /\ Off_.at = "off" /\ Off_.place = "none" /\ Off_.since = {}
    BY <1>2 DEF Off_, InstallStates, InstallSteps
<1>4. SkillsAreTyped
    BY <1>1, <1>3, SomeEntries, SkillConstants DEF SkillsAreTyped, SkillTypeOK
<1>5. OneInstalls /\ \A i \in Installs : StagedSoFar(i) /\ AsideCanReturn(i)
    BY <1>1, <1>3 DEF OneInstalls, Installing, StagedSoFar, AsideCanReturn, PlaceSteps
<1>6. NeverHalfASkill /\ FailureLeavesACopy
    BY <1>1, SomeEntries DEF NeverHalfASkill, FailureLeavesACopy
<1> QED BY <1>4, <1>5, <1>6 DEF SkillInv

LEMMA SkillStutters == SkillInv /\ UNCHANGED skillVars => SkillInv'
BY DEF skillVars, SkillInv, SkillsAreTyped, SkillTypeOK, OneInstalls, Installing, StagedSoFar, AsideCanReturn,
       NeverHalfASkill, FailureLeavesACopy, Place, Source

(* What a reader finds of a placed file or skill is whole, at any time: a  *)
(* file with any number of passes that place it and a guest that replaces, *)
(* deletes or chmods it between any two requests; a skill with any number  *)
(* of installs one after the other, each of which may fail or die at any   *)
(* step (write_if_changed, local/skills.rs apply and swap_in).             *)
THEOREM PlacedStaysWhole ==
    ASSUME IsFiniteSet(Installs), AtOnce <= 1
    PROVE  FileSpec /\ SkillSpec => []PlacedIsWhole
<1>1. SkillInv /\ [SkillNext]_skillVars => SkillInv'
    <2> SUFFICES ASSUME SkillInv, SkillNext PROVE SkillInv'
        BY SkillStutters
    <2>1. ASSUME NEW i \in Installs, Dies(i) PROVE SkillInv'
        BY <2>1, FailuresHold, HalfwayFailuresHold
    <2> QED
        BY <2>1, PlansHolds, NextPlaceHolds, StagingHolds, MovesAsideHolds, RenamesInHolds, RemovesAsideHolds,
           FailuresHold, HalfwayFailuresHold, TouchesHold DEF SkillNext
<1>2. SkillInv => SkillTypeOK /\ NeverHalfASkill /\ FailureLeavesACopy
    BY DEF SkillInv, SkillsAreTyped
<1> QED BY <1>1, <1>2, SkillInitHolds, FileStays, PTL DEF SkillSpec, PlacedIsWhole

=============================================================================
