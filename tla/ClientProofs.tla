---------------------------- MODULE ClientProofs ----------------------------
(***************************************************************************)
(* Proofs about what a user runs: the update of agentctl and agentd        *)
(* (SelfUpdate), for any updaters, releases, sessions and number of        *)
(* processes that die; the background reads of the terminal UI (TuiPanel), *)
(* for any sessions, turns and edits; the forwards it holds (TuiForwards), *)
(* for any agents, viewers, sandboxes and tasks; and the commands          *)
(* (CommandLine), for any terminals, agents and command lines.             *)
(***************************************************************************)
EXTENDS SelfUpdate, TuiPanel, TuiForwards, CommandLine, SequenceTheorems, FiniteSetTheorems, TLAPS

-----------------------------------------------------------------------------
(* The update.  It is a sequence of durable writes that any process may be *)
(* taken out of and any other may resume.  The inductive invariant         *)
(* therefore speaks twice of every step: of what the updater at work may   *)
(* rely on, and of what the files alone say when nobody is at work.        *)

(* The steps at which an updater holds agentd.lock, and those at which it  *)
(* holds install.lock.                                                     *)
Homed == {"writes journal", "migrates", "marks", "records migration", "activates", "records activation"}
Locked == Homed \cup {"checks", "waits for home", "starts", "verifies", "prunes"}

(* An updater acts under the locks its step needs.                         *)
HoldsItsLocks(u) ==
    /\ updater[u].pc \in Locked => installLock = u
    /\ updater[u].pc \in Homed => homeLock = u

(* Its target is a release, and installed once the lock is taken; its      *)
(* `previous` was current at some time.                                    *)
AimsAtARelease(u) ==
    /\ updater[u].pc \in {"looks", "downloads", "stages"} => updater[u].target \in Versions
    /\ updater[u].pc \in Locked => updater[u].target \in releases
    /\ updater[u].previous <= current

(* The journal on disk is its own, in the phase its step belongs to.       *)
Matches(u) == journal.target = updater[u].target /\ journal.previous = updater[u].previous

WorksOnTheJournal(u) ==
    /\ updater[u].pc \in {"checks", "waits for home"} => (Unfinished => Matches(u))
    /\ updater[u].pc = "waits for home" => journal.phase # "Activated"
    /\ updater[u].pc \in {"writes journal", "prunes"} => ~Unfinished
    /\ updater[u].pc \in {"migrates", "marks", "records migration"} => journal.phase = "Prepared" /\ Matches(u)
    /\ updater[u].pc \in {"activates", "records activation"} => journal.phase = "Migrated" /\ Matches(u)
    /\ updater[u].pc \in {"starts", "verifies"} => journal.phase = "Activated" /\ Matches(u)

(* What it has done and not yet recorded is there.                         *)
HasDoneItsSteps(u) ==
    /\ updater[u].pc \in {"marks", "records migration"} => schema = updater[u].target
    /\ updater[u].pc = "records migration" => marker # 0
    /\ updater[u].pc = "records activation" => current = updater[u].target

UpdaterIsRight(u) == HoldsItsLocks(u) /\ AimsAtARelease(u) /\ WorksOnTheJournal(u) /\ HasDoneItsSteps(u)

(* What the phase on disk says of the database, the marker and the         *)
(* pointer, with or without a process at work.                             *)
PhaseIsTrue ==
    /\ journal.previous <= current
    /\ journal.phase = "Prepared" => schema <= current \/ schema = journal.target \/ discarded
    /\ journal.phase \in {"Migrated", "Activated"} => schema = journal.target
    /\ journal.phase = "Migrated" => marker # 0 \/ schema = current
    /\ journal.phase = "Activated" => current = journal.target

(* The database is never behind the pointer, and no daemon is ahead of it: *)
(* only an updater takes the database further.                             *)
DatabaseLeads ==
    /\ current <= schema
    /\ \A v \in spawned : v <= current
    /\ daemon.pc # "off" => daemon.version = current /\ schema = current

(* No daemon serves before the marker is gone, and once it is, the current *)
(* release launched every harness.                                         *)
PassComesFirst ==
    /\ daemon.pc \in {"serves", "drains"} => marker = 0
    /\ daemon.pc = "relaunches" /\ marker # 0 => \A s \in Live \ daemon.todo : runtime[s] = 0
    /\ marker = 0 /\ schema = current => \A s \in Live : runtime[s] \in {0, current}

FilesAreRight ==
    /\ CurrentIsInstalled /\ JournalIsResumable /\ StateIsServable
    /\ PhaseIsTrue /\ DatabaseLeads /\ PassComesFirst

IInv == UpdateTypeOK /\ FilesAreRight /\ \A u \in Updaters : UpdaterIsRight(u)

-----------------------------------------------------------------------------
(* The updaters.                                                           *)

UpdaterRecords == [pc : UpdaterPCs, target : 0..MaxVersion, previous : 0..MaxVersion]

LEMMA NoUpdaterIsALock ==
    ASSUME NEW u \in Updaters
    PROVE  u # Free /\ u # Agentd
BY SelfUpdateConstants DEF Free, Agentd

(* One step of a process is its own, and keeps its target.                 *)
LEMMA Moves ==
    ASSUME updater \in [Updaters -> UpdaterRecords], NEW u \in Updaters,
           NEW pc \in UpdaterPCs, Steps(u, pc)
    PROVE  /\ updater' \in [Updaters -> UpdaterRecords]
           /\ updater'[u].pc = pc
           /\ updater'[u].target = updater[u].target
           /\ updater'[u].previous = updater[u].previous
           /\ \A w \in Updaters \ {u} : updater'[w] = updater[w]
BY DEF Steps, UpdaterRecords

LEMMA Replaced ==
    ASSUME updater \in [Updaters -> UpdaterRecords], NEW u \in Updaters,
           NEW r \in UpdaterRecords, updater' = [updater EXCEPT ![u] = r]
    PROVE  /\ updater' \in [Updaters -> UpdaterRecords]
           /\ updater'[u] = r
           /\ \A w \in Updaters \ {u} : updater'[w] = updater[w]
OBVIOUS

LEMMA RestingIsARecord ==
    ASSUME MaxVersion \in Nat
    PROVE  Resting \in UpdaterRecords
BY DEF Resting, UpdaterRecords, UpdaterPCs

(* A process that ends takes nobody else's lock with it.                   *)
LEMMA Ended ==
    ASSUME updater \in [Updaters -> UpdaterRecords], NEW u \in Updaters, Ends(u)
    PROVE  /\ updater' \in [Updaters -> UpdaterRecords]
           /\ updater'[u] = Resting
           /\ \A w \in Updaters \ {u} : /\ updater'[w] = updater[w]
                                        /\ installLock = w => installLock' = w
                                        /\ homeLock = w => homeLock' = w
<1>1. MaxVersion \in Nat
    BY SelfUpdateConstants
<1> QED
    BY <1>1, RestingIsARecord, Replaced DEF Ends, Freed

(* A process that rests needs nothing.                                     *)
LEMMA RestingIsRight ==
    ASSUME NEW u \in Updaters, updater'[u] = Resting, current' \in Versions
    PROVE  UpdaterIsRight(u)'
BY SelfUpdateConstants
   DEF Resting, UpdaterIsRight, HoldsItsLocks, AimsAtARelease, WorksOnTheJournal, HasDoneItsSteps, Locked, Homed,
       Versions

(* Who holds no lock relies on nothing but the pointer's going forward.    *)
LEMMA UnlockedStaysRight ==
    ASSUME NEW w \in Updaters, updater'[w] = updater[w], updater[w].pc \notin Locked, UpdaterIsRight(w),
           current \in Nat, current' \in Nat, current <= current', updater[w].previous \in Nat
    PROVE  UpdaterIsRight(w)'
<1>1. HoldsItsLocks(w)' /\ WorksOnTheJournal(w)' /\ HasDoneItsSteps(w)'
    BY DEF HoldsItsLocks, WorksOnTheJournal, HasDoneItsSteps, Locked, Homed
<1>2. updater[w].previous <= current'
    BY DEF UpdaterIsRight, AimsAtARelease
<1>3. AimsAtARelease(w)'
    BY <1>2 DEF UpdaterIsRight, AimsAtARelease
<1> QED
    BY <1>1, <1>3 DEF UpdaterIsRight

(* Who holds one relies on the files, and keeps its lock.                  *)
LEMMA AtWorkStaysRight ==
    ASSUME NEW w \in Updaters, updater'[w] = updater[w], UpdaterIsRight(w),
           UNCHANGED <<current, journal, schema>>, releases \subseteq releases',
           installLock = w => installLock' = w, homeLock = w => homeLock' = w /\ marker' = marker
    PROVE  UpdaterIsRight(w)'
BY DEF UpdaterIsRight, HoldsItsLocks, AimsAtARelease, WorksOnTheJournal, HasDoneItsSteps, Locked, Homed,
       Matches, Unfinished

(* Two updaters are never at work at once.                                 *)
LEMMA OneAtWork ==
    ASSUME NEW u \in Updaters, NEW w \in Updaters, u # w, UpdaterIsRight(w), installLock \in {u, Free}
    PROVE  updater[w].pc \notin Locked
BY NoUpdaterIsALock DEF UpdaterIsRight, HoldsItsLocks

(* What the types say of the numbers.                                      *)
LEMMA Numbers ==
    ASSUME UpdateTypeOK
    PROVE  /\ MaxVersion \in Nat /\ current \in Nat /\ schema \in Nat /\ marker \in Nat
           /\ journal.target \in 0..MaxVersion /\ journal.previous \in 0..MaxVersion /\ journal.phase \in Phases
           /\ updater \in [Updaters -> UpdaterRecords]
           /\ \A u \in Updaters : /\ updater[u] \in UpdaterRecords /\ updater[u].previous \in Nat
                                  /\ updater[u].pc \in UpdaterPCs
                                  /\ updater[u].target \in 0..MaxVersion
                                  /\ updater[u].previous \in 0..MaxVersion
BY SelfUpdateConstants DEF UpdateTypeOK, Versions, UpdaterRecords

LEMMA PointerStays ==
    ASSUME UpdateTypeOK, current' = current
    PROVE  current' \in Nat /\ current <= current'
BY Numbers

LEMMA FilesStay ==
    ASSUME FilesAreRight,
           UNCHANGED <<releases, current, journal, marker, schema, spawned, daemon, runtime, discarded>>
    PROVE  FilesAreRight'
BY DEF FilesAreRight, CurrentIsInstalled, JournalIsResumable, StateIsServable, DiscardedBeforeMigration,
       Unfinished, PhaseIsTrue, DatabaseLeads, PassComesFirst

(* The types, when no file and no daemon changes.                          *)
LEMMA TypesStay ==
    ASSUME UpdateTypeOK, updater' \in [Updaters -> UpdaterRecords],
           installLock' \in Updaters \cup {Free}, homeLock' \in Updaters \cup {Free, Agentd},
           homeLock' = Agentd <=> homeLock = Agentd, deaths' \in 0..MaxDeaths,
           UNCHANGED <<releases, current, journal, marker, schema, spawned, daemon, runtime, attached, discarded>>
    PROVE  UpdateTypeOK'
BY DEF UpdateTypeOK, UpdaterRecords, Versions

-----------------------------------------------------------------------------
(* Steps that change no file.                                              *)

(* An updater goes on to a step; which files it needs there is its own     *)
(* matter.                                                                 *)
LEMMA OneGoesOn ==
    ASSUME IInv, NEW u \in Updaters, UpdaterIsRight(u)',
           updater' \in [Updaters -> UpdaterRecords], \A w \in Updaters \ {u} : updater'[w] = updater[w],
           \/ installLock' = installLock
           \/ installLock = Free /\ installLock' = u,
           \/ homeLock' = homeLock
           \/ homeLock = Free /\ homeLock' = u,
           UNCHANGED <<releases, current, journal, marker, schema, spawned, daemon, runtime, attached,
                       deaths, discarded>>
    PROVE  IInv'
<1>1. UpdateTypeOK /\ FilesAreRight /\ \A w \in Updaters : UpdaterIsRight(w)
    BY DEF IInv
<1>2. u # Agentd /\ Free # Agentd
    BY NoUpdaterIsALock DEF Free, Agentd
<1>3. UpdateTypeOK'
  <2>1. /\ installLock' \in Updaters \cup {Free} /\ homeLock' \in Updaters \cup {Free, Agentd}
        /\ homeLock' = Agentd <=> homeLock = Agentd
        /\ deaths' \in 0..MaxDeaths
    BY <1>1, <1>2 DEF UpdateTypeOK
  <2> QED
    BY <1>1, <2>1, TypesStay
<1>4. FilesAreRight'
    BY <1>1, FilesStay
<1>5. ASSUME NEW w \in Updaters \ {u} PROVE UpdaterIsRight(w)'
  <2>1. installLock = w => installLock' = w
    BY <1>5, NoUpdaterIsALock
  <2>2. homeLock = w => homeLock' = w
    BY <1>5, NoUpdaterIsALock
  <2> QED
    BY <1>1, <1>5, <2>1, <2>2, AtWorkStaysRight
<1> QED
    BY <1>3, <1>4, <1>5 DEF IInv

LEMMA ResumesIsRight ==
    ASSUME IInv, NEW u \in Updaters, Resumes(u)
    PROVE  IInv'
<1> DEFINE r == [pc |-> "locks", target |-> journal.target, previous |-> journal.previous]
<1>1. UpdateTypeOK /\ PhaseIsTrue
    BY DEF IInv, FilesAreRight
<1>2. r \in UpdaterRecords
    BY <1>1, Numbers DEF UpdaterRecords, UpdaterPCs
<1>3. /\ updater' = [updater EXCEPT ![u] = r]
      /\ UNCHANGED <<releases, current, journal, marker, schema, installLock, homeLock, spawned, daemon,
                     runtime, attached, deaths, discarded>>
    BY DEF Resumes
<1>4. r.pc = "locks" /\ r.previous = journal.previous
    OBVIOUS
<1> HIDE DEF r
<1>5. /\ updater' \in [Updaters -> UpdaterRecords] /\ updater'[u] = r
      /\ \A w \in Updaters \ {u} : updater'[w] = updater[w]
    BY <1>1, <1>2, <1>3, Numbers, Replaced
<1>6. UpdaterIsRight(u)'
    BY <1>1, <1>3, <1>4, <1>5 DEF PhaseIsTrue, UpdaterIsRight, HoldsItsLocks, AimsAtARelease, WorksOnTheJournal,
       HasDoneItsSteps, Locked, Homed
<1> QED
    BY <1>3, <1>5, <1>6, OneGoesOn

LEMMA UpdatesIsRight ==
    ASSUME IInv, NEW u \in Updaters, NEW v \in Versions, Updates(u, v)
    PROVE  IInv'
<1> DEFINE r == [pc |-> "looks", target |-> v, previous |-> current]
<1>1. UpdateTypeOK /\ current \in Versions
    BY DEF IInv, UpdateTypeOK
<1>2. r \in UpdaterRecords
    BY <1>1, SelfUpdateConstants DEF UpdaterRecords, UpdaterPCs, Versions
<1>3. /\ updater' = [updater EXCEPT ![u] = r]
      /\ UNCHANGED <<releases, current, journal, marker, schema, installLock, homeLock, spawned, daemon,
                     runtime, attached, deaths, discarded>>
    BY DEF Updates
<1>4. r.pc = "looks" /\ r.target = v /\ r.previous = current
    OBVIOUS
<1> HIDE DEF r
<1>5. /\ updater' \in [Updaters -> UpdaterRecords] /\ updater'[u] = r
      /\ \A w \in Updaters \ {u} : updater'[w] = updater[w]
    BY <1>1, <1>2, <1>3, Numbers, Replaced
<1>6. updater'[u].pc = "looks" /\ updater'[u].target \in Versions /\ updater'[u].previous <= current'
    BY <1>1, <1>3, <1>4, <1>5, Numbers
<1>7. UpdaterIsRight(u)'
    BY <1>6 DEF UpdaterIsRight, HoldsItsLocks, AimsAtARelease, WorksOnTheJournal,
       HasDoneItsSteps, Locked, Homed, Versions
<1> QED
    BY <1>3, <1>5, <1>7, OneGoesOn

(* The steps without install.lock, the taking of a lock, and what an       *)
(* updater knows once it has it.                                           *)
LEMMA LooksIsRight ==
    ASSUME IInv, NEW u \in Updaters, LooksForRelease(u) \/ Downloads(u)
    PROVE  IInv'
<1>1. UpdateTypeOK /\ UpdaterIsRight(u)
    BY DEF IInv
<1>2. PICK pc \in {"locks", "downloads", "stages"} : Steps(u, pc)
    BY DEF LooksForRelease, Downloads
<1>3. /\ updater[u].pc \in {"looks", "downloads"}
      /\ UNCHANGED <<releases, current, journal, marker, schema, installLock, homeLock, spawned, daemon,
                     runtime, attached, deaths, discarded>>
    BY DEF LooksForRelease, Downloads
<1>4. pc \in UpdaterPCs
    BY DEF UpdaterPCs
<1>5. /\ updater' \in [Updaters -> UpdaterRecords] /\ updater'[u].pc = pc
      /\ updater'[u].target = updater[u].target /\ updater'[u].previous = updater[u].previous
      /\ \A w \in Updaters \ {u} : updater'[w] = updater[w]
    BY <1>1, <1>2, <1>4, Numbers, Moves
<1>6. UpdaterIsRight(u)'
    BY <1>1, <1>2, <1>3, <1>5 DEF UpdaterIsRight, HoldsItsLocks, AimsAtARelease, WorksOnTheJournal,
       HasDoneItsSteps, Locked, Homed
<1> QED
    BY <1>3, <1>5, <1>6, OneGoesOn

LEMMA LocksIsRight ==
    ASSUME IInv, NEW u \in Updaters, Locks(u)
    PROVE  IInv'
<1>1. UpdateTypeOK /\ UpdaterIsRight(u)
    BY DEF IInv
<1>2. /\ updater[u].pc = "locks" /\ updater[u].target \in releases /\ Continues(u)
      /\ installLock = Free /\ installLock' = u /\ Steps(u, "checks")
      /\ UNCHANGED <<releases, current, journal, marker, schema, homeLock, spawned, daemon,
                     runtime, attached, deaths, discarded>>
    BY DEF Locks
<1>3. "checks" \in UpdaterPCs
    BY DEF UpdaterPCs
<1>4. /\ updater' \in [Updaters -> UpdaterRecords] /\ updater'[u].pc = "checks"
      /\ updater'[u].target = updater[u].target /\ updater'[u].previous = updater[u].previous
      /\ \A w \in Updaters \ {u} : updater'[w] = updater[w]
    BY <1>1, <1>2, <1>3, Numbers, Moves
<1>5. UpdaterIsRight(u)'
    BY <1>1, <1>2, <1>4 DEF UpdaterIsRight, HoldsItsLocks, AimsAtARelease, WorksOnTheJournal,
       HasDoneItsSteps, Locked, Homed, Continues, Matches, Unfinished
<1> QED
    BY <1>2, <1>4, <1>5, OneGoesOn

LEMMA TakesHomeIsRight ==
    ASSUME IInv, NEW u \in Updaters, TakesHome(u)
    PROVE  IInv'
<1>1. UpdateTypeOK /\ UpdaterIsRight(u)
    BY DEF IInv
<1>2. PICK pc \in {"migrates", "activates", "writes journal"} :
        /\ Steps(u, pc)
        /\ pc = "migrates" => Unfinished /\ journal.phase = "Prepared"
        /\ pc = "activates" => Unfinished /\ journal.phase # "Prepared"
        /\ pc = "writes journal" => ~Unfinished
    BY DEF TakesHome
<1>3. /\ updater[u].pc = "waits for home" /\ homeLock = Free /\ homeLock' = u
      /\ UNCHANGED <<releases, current, journal, marker, schema, installLock, spawned, daemon,
                     runtime, attached, deaths, discarded>>
    BY DEF TakesHome
<1>4. pc \in UpdaterPCs
    BY DEF UpdaterPCs
<1>5. /\ updater' \in [Updaters -> UpdaterRecords] /\ updater'[u].pc = pc
      /\ updater'[u].target = updater[u].target /\ updater'[u].previous = updater[u].previous
      /\ \A w \in Updaters \ {u} : updater'[w] = updater[w]
    BY <1>1, <1>2, <1>4, Numbers, Moves
<1>6. pc = "activates" => journal.phase = "Migrated"
    BY <1>1, <1>2, <1>3, Numbers DEF UpdaterIsRight, WorksOnTheJournal, Phases, Unfinished
<1>7. UpdaterIsRight(u)'
    BY <1>1, <1>2, <1>3, <1>5, <1>6 DEF UpdaterIsRight, HoldsItsLocks, AimsAtARelease, WorksOnTheJournal,
       HasDoneItsSteps, Locked, Homed, Matches, Unfinished
<1> QED
    BY <1>3, <1>5, <1>7, OneGoesOn

(* An updater that ends, of an error or its death, leaves the files as     *)
(* they are, and they speak for themselves.                                *)
LEMMA EndingIsRight ==
    ASSUME IInv, NEW u \in Updaters, Fails(u) \/ UpdaterDies(u)
    PROVE  IInv'
<1>1. UpdateTypeOK /\ FilesAreRight /\ \A w \in Updaters : UpdaterIsRight(w)
    BY DEF IInv
<1>2. /\ Ends(u)
      /\ UNCHANGED <<releases, current, journal, marker, schema, spawned, daemon, runtime, attached, discarded>>
    BY DEF Fails, UpdaterDies
<1>3. deaths' \in 0..MaxDeaths
    BY <1>1, SelfUpdateConstants DEF UpdateTypeOK, Fails, UpdaterDies
<1>4. /\ updater' \in [Updaters -> UpdaterRecords] /\ updater'[u] = Resting
      /\ \A w \in Updaters \ {u} : /\ updater'[w] = updater[w]
                                   /\ installLock = w => installLock' = w
                                   /\ homeLock = w => homeLock' = w
    BY <1>1, <1>2, Numbers, Ended
<1>5. UpdateTypeOK'
  <2>1. u # Agentd /\ Free # Agentd
    BY NoUpdaterIsALock DEF Free, Agentd
  <2>2. /\ installLock' \in Updaters \cup {Free} /\ homeLock' \in Updaters \cup {Free, Agentd}
        /\ homeLock' = Agentd <=> homeLock = Agentd
    BY <1>1, <1>2, <2>1 DEF UpdateTypeOK, Ends, Freed
  <2> QED
    BY <1>1, <1>2, <1>3, <1>4, <2>2, TypesStay
<1>6. FilesAreRight'
    BY <1>1, <1>2, FilesStay
<1>7. UpdaterIsRight(u)'
    BY <1>1, <1>2, <1>4, RestingIsRight DEF UpdateTypeOK
<1>8. ASSUME NEW w \in Updaters \ {u} PROVE UpdaterIsRight(w)'
    BY <1>1, <1>2, <1>4, <1>8, AtWorkStaysRight
<1> QED
    BY <1>5, <1>6, <1>7, <1>8 DEF IInv

-----------------------------------------------------------------------------
(* Steps of the updater at work.                                           *)

JournalRecords == [target : 0..MaxVersion, previous : 0..MaxVersion, phase : Phases]

(* While one is at work, the others hold no lock, and rely on nothing.     *)
LEMMA OthersRest ==
    ASSUME IInv, NEW u \in Updaters, updater[u].pc \in Locked, current' \in Nat, current <= current',
           \A w \in Updaters \ {u} : updater'[w] = updater[w]
    PROVE  \A w \in Updaters \ {u} : UpdaterIsRight(w)'
<1>1. UpdateTypeOK /\ \A w \in Updaters : UpdaterIsRight(w)
    BY DEF IInv
<1>2. installLock = u
    BY <1>1 DEF UpdaterIsRight, HoldsItsLocks
<1>3. ASSUME NEW w \in Updaters \ {u} PROVE UpdaterIsRight(w)'
  <2>1. updater[w].pc \notin Locked
    BY <1>1, <1>2, <1>3, OneAtWork
  <2>2. current \in Nat /\ updater[w].previous \in Nat
    BY <1>1, Numbers
  <2> QED
    BY <1>1, <1>3, <2>1, <2>2, UnlockedStaysRight
<1> QED
    BY <1>3

(* No daemon runs while an updater holds agentd.lock.                      *)
LEMMA NoDaemonAtHome ==
    ASSUME IInv, NEW u \in Updaters, updater[u].pc \in Homed
    PROVE  /\ homeLock = u /\ homeLock # Agentd
           /\ daemon.pc = "off" /\ updater[u].pc \in Locked
<1>1. homeLock = u /\ updater[u].pc \in Locked
    BY DEF IInv, UpdaterIsRight, HoldsItsLocks, Locked
<1>2. homeLock # Agentd
    BY <1>1, NoUpdaterIsALock
<1> QED
    BY <1>1, <1>2 DEF IInv, UpdateTypeOK

(* What a step of the updater at work has to show.                         *)
LEMMA OneWorks ==
    ASSUME IInv, NEW u \in Updaters, NEW pc \in UpdaterPCs, updater[u].pc \in Locked, Steps(u, pc),
           current' \in Versions, current <= current', releases' \subseteq Versions,
           journal' \in JournalRecords, marker' \in 0..MaxVersion, schema' \in Versions,
           spawned' \subseteq Versions, homeLock' = homeLock \/ homeLock' = Freed(homeLock, u),
           UNCHANGED <<installLock, daemon, runtime, attached, deaths, discarded>>,
           FilesAreRight', UpdaterIsRight(u)'
    PROVE  IInv'
<1>1. UpdateTypeOK
    BY DEF IInv
<1>2. updater' \in [Updaters -> UpdaterRecords] /\ \A w \in Updaters \ {u} : updater'[w] = updater[w]
    BY <1>1, Numbers, Moves
<1>3. \A w \in Updaters \ {u} : UpdaterIsRight(w)'
  <2>1. current' \in Nat
    BY SelfUpdateConstants DEF Versions
  <2> QED
    BY <1>2, <2>1, OthersRest
<1>4. UpdateTypeOK'
  <2>1. u # Agentd /\ Free # Agentd
    BY NoUpdaterIsALock DEF Free, Agentd
  <2>2. homeLock' \in Updaters \cup {Free, Agentd} /\ (homeLock' = Agentd <=> homeLock = Agentd)
    BY <1>1, <2>1 DEF UpdateTypeOK, Freed
  <2> QED
    BY <1>1, <1>2, <2>2 DEF UpdateTypeOK, UpdaterRecords, JournalRecords, Versions
<1> QED
    BY <1>3, <1>4 DEF IInv

(* What the updater at work knows.                                         *)
LEMMA AtWork ==
    ASSUME IInv, NEW u \in Updaters, updater[u].pc \in Locked
    PROVE  /\ updater[u].target \in releases /\ updater[u].target \in Versions
           /\ updater[u].previous \in 0..MaxVersion /\ updater[u].previous <= current
           /\ current \in Versions /\ schema \in Versions /\ releases \subseteq Versions
           /\ current \in Nat /\ schema \in Nat
           /\ spawned \subseteq Versions
           /\ marker \in 0..MaxVersion /\ journal \in JournalRecords /\ Versions \subseteq 0..MaxVersion
           /\ Versions \subseteq Nat \ {0}
<1>1. UpdateTypeOK
    BY DEF IInv
<1> QED
    BY <1>1, Numbers, SelfUpdateConstants DEF IInv, UpdateTypeOK, UpdaterIsRight, AimsAtARelease, Versions, JournalRecords

LEMMA WritesJournalIsRight ==
    ASSUME IInv, NEW u \in Updaters, WritesJournal(u)
    PROVE  IInv'
<1> DEFINE j == [target |-> updater[u].target, previous |-> updater[u].previous, phase |-> "Prepared"]
<1>1. /\ updater[u].pc = "writes journal" /\ journal' = j /\ Steps(u, "migrates")
      /\ UNCHANGED <<releases, current, marker, schema, installLock, homeLock, spawned, daemon,
                     runtime, attached, deaths, discarded>>
    BY DEF WritesJournal
<1>2. /\ updater[u].pc \in Homed /\ updater[u].pc \in Locked /\ "migrates" \in UpdaterPCs
      /\ homeLock = u /\ daemon.pc = "off"
    BY <1>1, NoDaemonAtHome DEF Homed, UpdaterPCs
<1>3. FilesAreRight /\ UpdaterIsRight(u) /\ UpdateTypeOK
    BY DEF IInv
<1>4. j.phase = "Prepared" /\ j.target = updater[u].target /\ j.previous = updater[u].previous
    OBVIOUS
<1>5. j \in JournalRecords
    BY <1>2, AtWork DEF JournalRecords, Phases
<1> HIDE DEF j
<1>6. /\ updater'[u].pc = "migrates" /\ updater'[u].target = updater[u].target
      /\ updater'[u].previous = updater[u].previous
    BY <1>1, <1>2, <1>3, Numbers, Moves
<1>7. FilesAreRight'
  <2>1. ~Unfinished
    BY <1>1, <1>3 DEF UpdaterIsRight, WorksOnTheJournal
  <2>2. CurrentIsInstalled' /\ JournalIsResumable' /\ StateIsServable'
    BY <1>1, <1>2, <1>3, <1>4, <2>1, AtWork DEF FilesAreRight, CurrentIsInstalled, JournalIsResumable, StateIsServable,
       DiscardedBeforeMigration, Unfinished
  <2>3. PhaseIsTrue'
    BY <1>1, <1>2, <1>3, <1>4, <2>1, AtWork DEF FilesAreRight, PhaseIsTrue, StateIsServable, DiscardedBeforeMigration
  <2>4. DatabaseLeads' /\ PassComesFirst'
    BY <1>1, <1>2, <1>3 DEF FilesAreRight, DatabaseLeads, PassComesFirst
  <2> QED
    BY <2>2, <2>3, <2>4 DEF FilesAreRight
<1>8. UpdaterIsRight(u)'
    BY <1>1, <1>2, <1>3, <1>4, <1>6 DEF UpdaterIsRight, HoldsItsLocks, AimsAtARelease, WorksOnTheJournal,
       HasDoneItsSteps, Locked, Homed, Matches, Unfinished
<1>9. current' \in Versions /\ releases' \subseteq Versions /\ marker' \in 0..MaxVersion
      /\ schema' \in Versions /\ spawned' \subseteq Versions /\ journal' \in JournalRecords
    BY <1>1, <1>2, <1>5, AtWork
<1>10. current <= current'
    BY <1>1, <1>3, PointerStays
<1> QED
    BY <1>1, <1>2, <1>7, <1>8, <1>9, <1>10, OneWorks

LEMMA MigratesIsRight ==
    ASSUME IInv, NEW u \in Updaters, Migrates(u)
    PROVE  IInv'
<1>1. /\ updater[u].pc = "migrates" /\ schema <= updater[u].target
      /\ schema' = updater[u].target /\ Steps(u, "marks")
      /\ UNCHANGED <<releases, current, journal, marker, installLock, homeLock, spawned, daemon,
                     runtime, attached, deaths, discarded>>
    BY DEF Migrates, Openable
<1>2. /\ updater[u].pc \in Homed /\ updater[u].pc \in Locked /\ "marks" \in UpdaterPCs
      /\ homeLock = u /\ daemon.pc = "off"
    BY <1>1, NoDaemonAtHome DEF Homed, UpdaterPCs
<1>3. FilesAreRight /\ UpdaterIsRight(u) /\ UpdateTypeOK
    BY DEF IInv
<1>4. /\ updater'[u].pc = "marks" /\ updater'[u].target = updater[u].target
      /\ updater'[u].previous = updater[u].previous
    BY <1>1, <1>2, <1>3, Numbers, Moves
<1>5. journal.phase = "Prepared" /\ journal.target = updater[u].target
    BY <1>1, <1>3 DEF UpdaterIsRight, WorksOnTheJournal, Matches
<1>6. FilesAreRight'
  <2>1. CurrentIsInstalled' /\ JournalIsResumable' /\ StateIsServable'
    BY <1>1, <1>3, <1>5 DEF FilesAreRight, CurrentIsInstalled, JournalIsResumable, StateIsServable,
       DiscardedBeforeMigration, Unfinished
  <2>2. PhaseIsTrue'
    BY <1>1, <1>3, <1>5 DEF FilesAreRight, PhaseIsTrue
  <2>3. current <= schema /\ current <= schema' /\ (schema' = current => schema = current)
    BY <1>1, <1>2, <1>3, AtWork DEF FilesAreRight, DatabaseLeads
  <2>4. DatabaseLeads'
    BY <1>1, <1>2, <1>3, <2>3 DEF FilesAreRight, DatabaseLeads
  <2>5. PassComesFirst'
    BY <1>1, <1>2, <1>3, <2>3 DEF FilesAreRight, PassComesFirst
  <2> QED
    BY <2>1, <2>2, <2>4, <2>5 DEF FilesAreRight
<1>7. UpdaterIsRight(u)'
    BY <1>1, <1>2, <1>3, <1>4 DEF UpdaterIsRight, HoldsItsLocks, AimsAtARelease, WorksOnTheJournal,
       HasDoneItsSteps, Locked, Homed, Matches, Unfinished
<1>8. current' \in Versions /\ releases' \subseteq Versions /\ marker' \in 0..MaxVersion
      /\ schema' \in Versions /\ spawned' \subseteq Versions /\ journal' \in JournalRecords
    BY <1>1, <1>2, AtWork
<1>9. current <= current'
    BY <1>1, <1>3, PointerStays
<1> QED
    BY <1>1, <1>2, <1>6, <1>7, <1>8, <1>9, OneWorks

LEMMA MarksIsRight ==
    ASSUME IInv, NEW u \in Updaters, Marks(u)
    PROVE  IInv'
<1>1. /\ updater[u].pc = "marks" /\ marker' = updater[u].target /\ Steps(u, "records migration")
      /\ UNCHANGED <<releases, current, journal, schema, installLock, homeLock, spawned, daemon,
                     runtime, attached, deaths, discarded>>
    BY DEF Marks
<1>2. /\ updater[u].pc \in Homed /\ updater[u].pc \in Locked /\ "records migration" \in UpdaterPCs
      /\ homeLock = u /\ daemon.pc = "off"
    BY <1>1, NoDaemonAtHome DEF Homed, UpdaterPCs
<1>3. FilesAreRight /\ UpdaterIsRight(u) /\ UpdateTypeOK
    BY DEF IInv
<1>4. /\ updater'[u].pc = "records migration" /\ updater'[u].target = updater[u].target
      /\ updater'[u].previous = updater[u].previous
    BY <1>1, <1>2, <1>3, Numbers, Moves
<1>5. marker' # 0
    BY <1>1, <1>2, AtWork
<1>6. FilesAreRight'
    BY <1>1, <1>2, <1>3, <1>5 DEF FilesAreRight, CurrentIsInstalled, JournalIsResumable, StateIsServable,
       DiscardedBeforeMigration, Unfinished, PhaseIsTrue, DatabaseLeads, PassComesFirst
<1>7. UpdaterIsRight(u)'
    BY <1>1, <1>2, <1>3, <1>4, <1>5 DEF UpdaterIsRight, HoldsItsLocks, AimsAtARelease, WorksOnTheJournal,
       HasDoneItsSteps, Locked, Homed, Matches, Unfinished
<1>8. current' \in Versions /\ releases' \subseteq Versions /\ marker' \in 0..MaxVersion
      /\ schema' \in Versions /\ spawned' \subseteq Versions /\ journal' \in JournalRecords
    BY <1>1, <1>2, AtWork
<1>9. current <= current'
    BY <1>1, <1>3, PointerStays
<1> QED
    BY <1>1, <1>2, <1>6, <1>7, <1>8, <1>9, OneWorks

(* UpdateJournal::advance keeps the releases the journal names.            *)
LEMMA RecordedStep ==
    ASSUME journal \in JournalRecords, NEW phase \in Phases, journal' = [journal EXCEPT !.phase = phase]
    PROVE  /\ journal' \in JournalRecords /\ journal'.phase = phase
           /\ journal'.target = journal.target /\ journal'.previous = journal.previous
BY DEF JournalRecords

LEMMA RecordsMigrationIsRight ==
    ASSUME IInv, NEW u \in Updaters, RecordsMigration(u)
    PROVE  IInv'
<1>1. /\ updater[u].pc = "records migration" /\ journal' = [journal EXCEPT !.phase = "Migrated"]
      /\ Steps(u, "activates")
      /\ UNCHANGED <<releases, current, marker, schema, installLock, homeLock, spawned, daemon,
                     runtime, attached, deaths, discarded>>
    BY DEF RecordsMigration, Records
<1>2. /\ updater[u].pc \in Homed /\ updater[u].pc \in Locked /\ "activates" \in UpdaterPCs
      /\ homeLock = u /\ daemon.pc = "off"
    BY <1>1, NoDaemonAtHome DEF Homed, UpdaterPCs
<1>3. FilesAreRight /\ UpdaterIsRight(u) /\ UpdateTypeOK
    BY DEF IInv
<1>4. /\ updater'[u].pc = "activates" /\ updater'[u].target = updater[u].target
      /\ updater'[u].previous = updater[u].previous
    BY <1>1, <1>2, <1>3, Numbers, Moves
<1>5. /\ journal' \in JournalRecords /\ journal'.phase = "Migrated"
      /\ journal'.target = journal.target /\ journal'.previous = journal.previous
  <2>1. "Migrated" \in Phases
    BY DEF Phases
  <2> QED
    BY <1>1, <1>2, <2>1, AtWork, RecordedStep
<1>6. /\ journal.phase = "Prepared" /\ Matches(u)
      /\ schema = updater[u].target /\ marker # 0
    BY <1>1, <1>3 DEF UpdaterIsRight, WorksOnTheJournal, HasDoneItsSteps
<1>7. FilesAreRight'
  <2>1. CurrentIsInstalled' /\ JournalIsResumable' /\ StateIsServable'
    <3>1. Unfinished /\ Unfinished'
        BY <1>5, <1>6 DEF Unfinished
    <3>2. StateIsServable'
        BY <3>1 DEF StateIsServable, DiscardedBeforeMigration
    <3>3. CurrentIsInstalled'
        BY <1>1, <1>3 DEF FilesAreRight, CurrentIsInstalled
    <3>4. releases' = releases /\ journal.target \in releases
        BY <1>1, <1>3, <3>1 DEF FilesAreRight, JournalIsResumable
    <3> QED
        BY <1>5, <3>2, <3>3, <3>4 DEF JournalIsResumable
  <2>2. PhaseIsTrue'
    BY <1>1, <1>3, <1>5, <1>6 DEF FilesAreRight, PhaseIsTrue, Matches
  <2>3. DatabaseLeads' /\ PassComesFirst'
    BY <1>1, <1>3 DEF FilesAreRight, DatabaseLeads, PassComesFirst
  <2> QED
    BY <2>1, <2>2, <2>3 DEF FilesAreRight
<1>8. UpdaterIsRight(u)'
    BY <1>1, <1>2, <1>3, <1>4, <1>5, <1>6 DEF UpdaterIsRight, HoldsItsLocks, AimsAtARelease, WorksOnTheJournal,
       HasDoneItsSteps, Locked, Homed, Matches
<1>9. current' \in Versions /\ releases' \subseteq Versions /\ marker' \in 0..MaxVersion
      /\ schema' \in Versions /\ spawned' \subseteq Versions /\ journal' \in JournalRecords
    BY <1>1, <1>2, <1>5, AtWork
<1>10. current <= current'
    BY <1>1, <1>3, PointerStays
<1> QED
    BY <1>1, <1>2, <1>7, <1>8, <1>9, <1>10, OneWorks

(* The pointer follows the database: it names the release that migrated it. *)
LEMMA ActivatesIsRight ==
    ASSUME IInv, NEW u \in Updaters, Activates(u)
    PROVE  IInv'
<1>1. /\ updater[u].pc = "activates" /\ current' = updater[u].target /\ Steps(u, "records activation")
      /\ UNCHANGED <<releases, journal, marker, schema, installLock, homeLock, spawned, daemon,
                     runtime, attached, deaths, discarded>>
    BY DEF Activates
<1>2. /\ updater[u].pc \in Homed /\ updater[u].pc \in Locked /\ "records activation" \in UpdaterPCs
      /\ homeLock = u /\ daemon.pc = "off"
    BY <1>1, NoDaemonAtHome DEF Homed, UpdaterPCs
<1>3. FilesAreRight /\ UpdaterIsRight(u) /\ UpdateTypeOK
    BY DEF IInv
<1>4. /\ updater'[u].pc = "records activation" /\ updater'[u].target = updater[u].target
      /\ updater'[u].previous = updater[u].previous
    BY <1>1, <1>2, <1>3, Numbers, Moves
<1>5. journal.phase = "Migrated" /\ Matches(u)
    BY <1>1, <1>3 DEF UpdaterIsRight, WorksOnTheJournal
<1>6. schema = updater[u].target /\ current' = schema /\ current <= current'
    BY <1>1, <1>3, <1>5 DEF FilesAreRight, PhaseIsTrue, DatabaseLeads, Matches
<1>7. /\ current \in Nat /\ current' \in Nat /\ schema \in Nat /\ journal.previous \in Nat
      /\ \A v \in spawned : v \in Nat
  <2>1. current \in Nat /\ schema \in Nat /\ journal.previous \in 0..MaxVersion
    BY <1>3, Numbers
  <2>2. \A v \in spawned : v \in Nat
    BY <1>3 DEF UpdateTypeOK, Versions
  <2> QED
    BY <1>6, <2>1, <2>2
<1>8. FilesAreRight'
  <2>1. CurrentIsInstalled' /\ JournalIsResumable'
    BY <1>1, <1>2, <1>3, AtWork DEF FilesAreRight, CurrentIsInstalled, JournalIsResumable, Unfinished
  <2>2. StateIsServable'
    BY <1>1, <1>5 DEF StateIsServable, DiscardedBeforeMigration, Unfinished
  <2>3. PhaseIsTrue'
    <3>1. journal' = journal /\ schema' = schema
        BY <1>1
    <3>2. journal.previous <= current'
        BY <1>3, <1>6, <1>7 DEF FilesAreRight, PhaseIsTrue
    <3> QED
        BY <1>3, <1>5, <1>6, <3>1, <3>2 DEF FilesAreRight, PhaseIsTrue
  <2>4. DatabaseLeads'
    <3>1. \A v \in spawned : v <= current'
        BY <1>3, <1>6, <1>7 DEF FilesAreRight, DatabaseLeads
    <3>2. schema' = schema /\ spawned' = spawned /\ daemon' = daemon
        BY <1>1
    <3>3. current' <= schema'
        BY <1>6, <1>7, <3>2
    <3> QED
        BY <1>2, <3>1, <3>2, <3>3 DEF DatabaseLeads
  <2>5. marker = 0 => schema = current
    BY <1>3, <1>5 DEF FilesAreRight, PhaseIsTrue
  <2>6. PassComesFirst'
    BY <1>1, <1>2, <1>3, <1>6, <2>5 DEF FilesAreRight, PassComesFirst
  <2> QED
    BY <2>1, <2>2, <2>3, <2>4, <2>6 DEF FilesAreRight
<1>9. UpdaterIsRight(u)'
  <2>1. updater[u].previous <= current'
    <3>1. updater[u].previous \in Nat /\ updater[u].previous <= current
        BY <1>3, Numbers DEF UpdaterIsRight, AimsAtARelease
    <3> QED
        BY <3>1, <1>6, <1>7
  <2> QED
    BY <1>1, <1>2, <1>3, <1>4, <1>5, <2>1 DEF UpdaterIsRight, HoldsItsLocks, AimsAtARelease, WorksOnTheJournal,
       HasDoneItsSteps, Locked, Homed, Matches
<1>10. current' \in Versions /\ releases' \subseteq Versions /\ marker' \in 0..MaxVersion
      /\ schema' \in Versions /\ spawned' \subseteq Versions /\ journal' \in JournalRecords
    BY <1>1, <1>2, AtWork
<1> QED
    BY <1>1, <1>2, <1>6, <1>8, <1>9, <1>10, OneWorks

LEMMA RecordsActivationIsRight ==
    ASSUME IInv, NEW u \in Updaters, RecordsActivation(u)
    PROVE  IInv'
<1>1. /\ updater[u].pc = "records activation" /\ journal' = [journal EXCEPT !.phase = "Activated"]
      /\ Steps(u, "starts") /\ homeLock' = Freed(homeLock, u)
      /\ UNCHANGED <<releases, current, marker, schema, installLock, spawned, daemon,
                     runtime, attached, deaths, discarded>>
    BY DEF RecordsActivation, Records
<1>2. /\ updater[u].pc \in Homed /\ updater[u].pc \in Locked /\ "starts" \in UpdaterPCs
      /\ homeLock = u /\ daemon.pc = "off"
    BY <1>1, NoDaemonAtHome DEF Homed, UpdaterPCs
<1>3. FilesAreRight /\ UpdaterIsRight(u) /\ UpdateTypeOK
    BY DEF IInv
<1>4. /\ updater'[u].pc = "starts" /\ updater'[u].target = updater[u].target
      /\ updater'[u].previous = updater[u].previous
    BY <1>1, <1>2, <1>3, Numbers, Moves
<1>5. /\ journal' \in JournalRecords /\ journal'.phase = "Activated"
      /\ journal'.target = journal.target /\ journal'.previous = journal.previous
  <2>1. "Activated" \in Phases
    BY DEF Phases
  <2> QED
    BY <1>1, <1>2, <2>1, AtWork, RecordedStep
<1>6. journal.phase = "Migrated" /\ Matches(u) /\ current = updater[u].target
    BY <1>1, <1>3 DEF UpdaterIsRight, WorksOnTheJournal, HasDoneItsSteps
<1>7. FilesAreRight'
  <2>1. CurrentIsInstalled' /\ JournalIsResumable' /\ StateIsServable'
    <3>1. Unfinished /\ Unfinished'
        BY <1>5, <1>6 DEF Unfinished
    <3>2. StateIsServable'
        BY <3>1 DEF StateIsServable, DiscardedBeforeMigration
    <3>3. CurrentIsInstalled'
        BY <1>1, <1>3 DEF FilesAreRight, CurrentIsInstalled
    <3>4. releases' = releases /\ journal.target \in releases
        BY <1>1, <1>3, <3>1 DEF FilesAreRight, JournalIsResumable
    <3> QED
        BY <1>5, <3>2, <3>3, <3>4 DEF JournalIsResumable
  <2>2. PhaseIsTrue'
    BY <1>1, <1>3, <1>5, <1>6 DEF FilesAreRight, PhaseIsTrue, Matches
  <2>3. DatabaseLeads' /\ PassComesFirst'
    BY <1>1, <1>3 DEF FilesAreRight, DatabaseLeads, PassComesFirst
  <2> QED
    BY <2>1, <2>2, <2>3 DEF FilesAreRight
<1>8. UpdaterIsRight(u)'
    BY <1>1, <1>2, <1>3, <1>4, <1>5, <1>6 DEF UpdaterIsRight, HoldsItsLocks, AimsAtARelease, WorksOnTheJournal,
       HasDoneItsSteps, Locked, Homed, Matches
<1>9. current' \in Versions /\ releases' \subseteq Versions /\ marker' \in 0..MaxVersion
      /\ schema' \in Versions /\ spawned' \subseteq Versions /\ journal' \in JournalRecords
    BY <1>1, <1>2, <1>5, AtWork
<1>10. current <= current'
    BY <1>1, <1>3, PointerStays
<1> QED
    BY <1>1, <1>2, <1>7, <1>8, <1>9, <1>10, OneWorks

LEMMA StartsTargetIsRight ==
    ASSUME IInv, NEW u \in Updaters, StartsTarget(u)
    PROVE  IInv'
<1>1. /\ updater[u].pc = "starts" /\ Steps(u, "verifies")
      /\ spawned' = spawned \/ spawned' = spawned \cup {updater[u].target}
      /\ UNCHANGED <<releases, current, journal, marker, schema, installLock, homeLock, daemon,
                     runtime, attached, deaths, discarded>>
    BY DEF StartsTarget
<1>2. updater[u].pc \in Locked /\ "verifies" \in UpdaterPCs
    BY <1>1 DEF Locked, UpdaterPCs
<1>3. FilesAreRight /\ UpdaterIsRight(u) /\ UpdateTypeOK
    BY DEF IInv
<1>4. /\ updater'[u].pc = "verifies" /\ updater'[u].target = updater[u].target
      /\ updater'[u].previous = updater[u].previous
    BY <1>1, <1>2, <1>3, Numbers, Moves
<1>5. journal.phase = "Activated" /\ Matches(u)
    BY <1>1, <1>3 DEF UpdaterIsRight, WorksOnTheJournal
<1>6. updater[u].target = current /\ current \in Nat
    BY <1>3, <1>5, Numbers DEF FilesAreRight, PhaseIsTrue, Matches
<1>7. FilesAreRight'
  <2>1. CurrentIsInstalled' /\ JournalIsResumable' /\ StateIsServable' /\ PhaseIsTrue' /\ PassComesFirst'
    BY <1>1, <1>3 DEF FilesAreRight, CurrentIsInstalled, JournalIsResumable, StateIsServable,
       DiscardedBeforeMigration, Unfinished, PhaseIsTrue, PassComesFirst
  <2>2. \A v \in spawned' : v <= current
    BY <1>1, <1>3, <1>6 DEF FilesAreRight, DatabaseLeads
  <2>3. DatabaseLeads'
    BY <1>1, <1>3, <2>2 DEF FilesAreRight, DatabaseLeads
  <2> QED
    BY <2>1, <2>3 DEF FilesAreRight
<1>8. UpdaterIsRight(u)'
    BY <1>1, <1>2, <1>3, <1>4, <1>5 DEF UpdaterIsRight, HoldsItsLocks, AimsAtARelease, WorksOnTheJournal,
       HasDoneItsSteps, Locked, Homed, Matches
<1>9. current' \in Versions /\ releases' \subseteq Versions /\ marker' \in 0..MaxVersion
      /\ schema' \in Versions /\ spawned' \subseteq Versions /\ journal' \in JournalRecords
    BY <1>1, <1>2, AtWork
<1>10. current <= current'
    BY <1>1, <1>6
<1> QED
    BY <1>1, <1>2, <1>7, <1>8, <1>9, <1>10, OneWorks

LEMMA VerifiesIsRight ==
    ASSUME IInv, NEW u \in Updaters, Verifies(u)
    PROVE  IInv'
<1>1. /\ updater[u].pc = "verifies" /\ Steps(u, "prunes") /\ journal' = NoJournal
      /\ UNCHANGED <<releases, current, marker, schema, installLock, homeLock, spawned, daemon,
                     runtime, attached, deaths, discarded>>
    BY DEF Verifies
<1>2. updater[u].pc \in Locked /\ "prunes" \in UpdaterPCs
    BY <1>1 DEF Locked, UpdaterPCs
<1>3. FilesAreRight /\ UpdaterIsRight(u) /\ UpdateTypeOK
    BY DEF IInv
<1>4. /\ updater'[u].pc = "prunes" /\ updater'[u].target = updater[u].target
      /\ updater'[u].previous = updater[u].previous
    BY <1>1, <1>2, <1>3, Numbers, Moves
<1>5. journal.phase = "Activated" /\ Matches(u)
    BY <1>1, <1>3 DEF UpdaterIsRight, WorksOnTheJournal
<1>6. schema = current /\ current \in Nat /\ schema \in Nat
    BY <1>3, <1>5, Numbers DEF FilesAreRight, PhaseIsTrue, Matches
<1>7. journal'.phase = "Complete" /\ journal'.previous = 0 /\ journal'.target = 0
    BY <1>1 DEF NoJournal
<1>8. FilesAreRight'
  <2>1. schema <= current
    BY <1>6
  <2>2. CurrentIsInstalled' /\ JournalIsResumable' /\ StateIsServable'
    BY <1>1, <1>3, <1>7, <2>1 DEF FilesAreRight, CurrentIsInstalled, JournalIsResumable, StateIsServable,
       DiscardedBeforeMigration, Unfinished
  <2>3. PhaseIsTrue'
    BY <1>1, <1>6, <1>7 DEF PhaseIsTrue
  <2>4. DatabaseLeads' /\ PassComesFirst'
    BY <1>1, <1>3 DEF FilesAreRight, DatabaseLeads, PassComesFirst
  <2> QED
    BY <2>2, <2>3, <2>4 DEF FilesAreRight
<1>9. UpdaterIsRight(u)'
    BY <1>1, <1>2, <1>3, <1>4, <1>7 DEF UpdaterIsRight, HoldsItsLocks, AimsAtARelease, WorksOnTheJournal,
       HasDoneItsSteps, Locked, Homed, Unfinished
<1>10. current' \in Versions /\ releases' \subseteq Versions /\ marker' \in 0..MaxVersion
      /\ schema' \in Versions /\ spawned' \subseteq Versions
    BY <1>1, <1>2, AtWork
<1>11. journal' \in JournalRecords
    BY <1>1, SelfUpdateConstants DEF NoJournal, JournalRecords, Phases
<1>12. current <= current'
    BY <1>1, <1>6
<1> QED
    BY <1>1, <1>2, <1>8, <1>9, <1>10, <1>11, <1>12, OneWorks

(* A release is only added here, which disturbs nobody.                    *)
LEMMA StagesIsRight ==
    ASSUME IInv, NEW u \in Updaters, Stages(u)
    PROVE  IInv'
<1>1. /\ updater[u].pc = "stages" /\ releases' = releases \cup {updater[u].target} /\ Steps(u, "locks")
      /\ UNCHANGED <<current, journal, marker, schema, installLock, homeLock, spawned, daemon,
                     runtime, attached, deaths, discarded>>
    BY DEF Stages
<1>2. UpdateTypeOK /\ FilesAreRight /\ \A w \in Updaters : UpdaterIsRight(w)
    BY DEF IInv
<1>3. /\ updater' \in [Updaters -> UpdaterRecords] /\ updater'[u].pc = "locks"
      /\ updater'[u].target = updater[u].target /\ updater'[u].previous = updater[u].previous
      /\ \A w \in Updaters \ {u} : updater'[w] = updater[w]
  <2>1. "locks" \in UpdaterPCs
    BY DEF UpdaterPCs
  <2> QED
    BY <1>1, <1>2, <2>1, Numbers, Moves
<1>4. UpdateTypeOK'
  <2>1. releases' \subseteq Versions
    BY <1>1, <1>2 DEF UpdateTypeOK, UpdaterIsRight, AimsAtARelease
  <2> QED
    BY <1>1, <1>2, <1>3, <2>1 DEF UpdateTypeOK, UpdaterRecords, Versions
<1>5. FilesAreRight'
    BY <1>1, <1>2 DEF FilesAreRight, CurrentIsInstalled, JournalIsResumable, StateIsServable, DiscardedBeforeMigration,
       Unfinished, PhaseIsTrue, DatabaseLeads, PassComesFirst
<1>6. UpdaterIsRight(u)'
    BY <1>1, <1>2, <1>3 DEF UpdaterIsRight, HoldsItsLocks, AimsAtARelease, WorksOnTheJournal,
       HasDoneItsSteps, Locked, Homed
<1>7. \A w \in Updaters \ {u} : UpdaterIsRight(w)'
    BY <1>1, <1>2, <1>3, AtWorkStaysRight
<1> QED
    BY <1>4, <1>5, <1>6, <1>7 DEF IInv

(* The daemon that is told to shut down still has the database open.       *)
LEMMA ChecksReadinessIsRight ==
    ASSUME IInv, NEW u \in Updaters, ChecksReadiness(u)
    PROVE  IInv'
<1>1. /\ updater[u].pc = "checks"
      /\ \/ daemon' = daemon
         \/ daemon.pc = "serves" /\ daemon' = [daemon EXCEPT !.pc = "drains"]
      /\ UNCHANGED <<releases, current, journal, marker, schema, installLock, homeLock, spawned,
                     runtime, attached, deaths, discarded>>
    BY DEF ChecksReadiness
<1>2. PICK pc \in {"waits for home", "starts"} :
        Steps(u, pc) /\ pc = (IF Before("Activated") THEN "waits for home" ELSE "starts")
    BY DEF ChecksReadiness
<1>3. UpdateTypeOK /\ FilesAreRight /\ UpdaterIsRight(u)
    BY DEF IInv
<1>4. updater[u].pc \in Locked /\ pc \in UpdaterPCs
    BY <1>1, <1>2 DEF Locked, UpdaterPCs
<1>5. /\ updater' \in [Updaters -> UpdaterRecords] /\ updater'[u].pc = pc
      /\ updater'[u].target = updater[u].target /\ updater'[u].previous = updater[u].previous
      /\ \A w \in Updaters \ {u} : updater'[w] = updater[w]
    BY <1>2, <1>3, <1>4, Numbers, Moves
<1>6. /\ pc = "waits for home" => journal.phase # "Activated"
      /\ pc = "starts" => journal.phase = "Activated"
  <2>1. journal.phase \in Phases
    BY <1>3, Numbers
  <2> QED
    BY <1>2, <2>1 DEF Before, Phases
<1>7. /\ daemon'.pc # "off" <=> daemon.pc # "off"
      /\ daemon'.version = daemon.version /\ daemon'.todo = daemon.todo
      /\ daemon' \in [version : 0..MaxVersion, pc : {"off", "relaunches", "stops", "serves", "drains"}, todo : SUBSET Live]
      /\ daemon'.pc \in {"serves", "drains"} => daemon.pc \in {"serves", "drains"}
      /\ daemon'.pc = "relaunches" => daemon.pc = "relaunches"
    BY <1>1, <1>3 DEF UpdateTypeOK
<1>8. UpdateTypeOK'
    BY <1>1, <1>3, <1>5, <1>7 DEF UpdateTypeOK, UpdaterRecords, Versions
<1>9. FilesAreRight'
  <2>1. CurrentIsInstalled' /\ JournalIsResumable' /\ StateIsServable' /\ PhaseIsTrue'
    BY <1>1, <1>3 DEF FilesAreRight, CurrentIsInstalled, JournalIsResumable, StateIsServable,
       DiscardedBeforeMigration, Unfinished, PhaseIsTrue
  <2>2. DatabaseLeads' /\ PassComesFirst'
    BY <1>1, <1>3, <1>7 DEF FilesAreRight, DatabaseLeads, PassComesFirst
  <2> QED
    BY <2>1, <2>2 DEF FilesAreRight
<1>10. UpdaterIsRight(u)'
    BY <1>1, <1>2, <1>3, <1>5, <1>6 DEF UpdaterIsRight, HoldsItsLocks, AimsAtARelease, WorksOnTheJournal,
       HasDoneItsSteps, Locked, Homed, Matches, Unfinished
<1>11. \A w \in Updaters \ {u} : UpdaterIsRight(w)'
    BY <1>1, <1>4, <1>5, <1>3, PointerStays, OthersRest
<1> QED
    BY <1>8, <1>9, <1>10, <1>11 DEF IInv

(* The journal goes; the database may have been migrated by an earlier     *)
(* attempt, and that is what `discarded` remembers.                        *)
LEMMA MigrationFailsIsRight ==
    ASSUME IInv, NEW u \in Updaters, MigrationFails(u)
    PROVE  IInv'
<1>1. /\ updater[u].pc = "migrates" /\ journal' = NoJournal /\ Ends(u)
      /\ \/ spawned' = spawned
         \/ spawned' = spawned \cup {updater[u].previous} /\ updater[u].previous \in releases
      /\ UNCHANGED <<releases, current, marker, schema, daemon, runtime, attached, deaths>>
    BY DEF MigrationFails
<1>2. discarded' = (discarded \/ schema = updater[u].target)
    BY DEF MigrationFails
<1>3. /\ updater[u].pc \in Homed /\ updater[u].pc \in Locked /\ homeLock = u /\ daemon.pc = "off"
    BY <1>1, NoDaemonAtHome DEF Homed
<1>4. UpdateTypeOK /\ FilesAreRight /\ UpdaterIsRight(u)
    BY DEF IInv
<1>5. journal.phase = "Prepared" /\ Matches(u)
    BY <1>1, <1>4 DEF UpdaterIsRight, WorksOnTheJournal
<1>6. journal'.phase = "Complete" /\ journal'.previous = 0 /\ journal'.target = 0
    BY <1>1 DEF NoJournal
<1>7. /\ updater' \in [Updaters -> UpdaterRecords] /\ updater'[u] = Resting
      /\ \A w \in Updaters \ {u} : updater'[w] = updater[w]
    BY <1>1, <1>4, Numbers, Ended
<1>8. UpdateTypeOK'
  <2>1. journal' \in JournalRecords
    BY <1>1, SelfUpdateConstants DEF NoJournal, JournalRecords, Phases
  <2>2. spawned' \subseteq Versions
    BY <1>1, <1>4 DEF UpdateTypeOK
  <2>3. discarded' \in BOOLEAN
    BY <1>2
  <2>4. installLock' \in Updaters \cup {Free} /\ homeLock' = Free /\ homeLock' # Agentd
    BY <1>1, <1>3, <1>4 DEF UpdateTypeOK, Ends, Freed, Free, Agentd
  <2> QED
    BY <1>1, <1>3, <1>4, <1>7, <2>1, <2>2, <2>3, <2>4 DEF UpdateTypeOK, UpdaterRecords, JournalRecords, Versions
<1>9. FilesAreRight'
  <2>1. CurrentIsInstalled' /\ JournalIsResumable'
    BY <1>1, <1>4, <1>6 DEF FilesAreRight, CurrentIsInstalled, JournalIsResumable, Unfinished
  <2>2. StateIsServable'
    <3>1. schema <= current \/ discarded'
        BY <1>2, <1>4, <1>5 DEF FilesAreRight, PhaseIsTrue, Matches
    <3>2. schema' = schema /\ current' = current
        BY <1>1
    <3> QED
        BY <3>1, <3>2 DEF StateIsServable, DiscardedBeforeMigration
  <2>3. PhaseIsTrue'
    <3>1. current \in Nat /\ current' = current
        BY <1>1, <1>4, Numbers
    <3>2. 0 <= current'
        BY <3>1
    <3> QED
        BY <1>6, <3>2 DEF PhaseIsTrue
  <2>4. \A v \in spawned' : v <= current
    BY <1>1, <1>4 DEF FilesAreRight, DatabaseLeads, UpdaterIsRight, AimsAtARelease
  <2>5. DatabaseLeads' /\ PassComesFirst'
    BY <1>1, <1>4, <2>4 DEF FilesAreRight, DatabaseLeads, PassComesFirst
  <2> QED
    BY <2>1, <2>2, <2>3, <2>5 DEF FilesAreRight
<1>10. UpdaterIsRight(u)'
    BY <1>1, <1>4, <1>7, RestingIsRight DEF UpdateTypeOK
<1>11. \A w \in Updaters \ {u} : UpdaterIsRight(w)'
    BY <1>1, <1>3, <1>7, <1>4, PointerStays, OthersRest
<1> QED
    BY <1>8, <1>9, <1>10, <1>11 DEF IInv

(* What is pruned is nobody's target: the updater that prunes is the only  *)
(* one with a lock, and no journal is left to resume.                      *)
LEMMA PrunesIsRight ==
    ASSUME IInv, NEW u \in Updaters, Prunes(u)
    PROVE  IInv'
<1>1. /\ updater[u].pc = "prunes" /\ Ends(u)
      /\ releases' \subseteq releases /\ (current \in releases => current \in releases')
      /\ UNCHANGED <<current, journal, marker, schema, spawned, daemon, runtime, attached, deaths, discarded>>
    BY DEF Prunes
<1>2. UpdateTypeOK /\ FilesAreRight /\ UpdaterIsRight(u)
    BY DEF IInv
<1>3. updater[u].pc \in Locked /\ ~Unfinished
    BY <1>1, <1>2 DEF Locked, UpdaterIsRight, WorksOnTheJournal
<1>4. /\ updater' \in [Updaters -> UpdaterRecords] /\ updater'[u] = Resting
      /\ \A w \in Updaters \ {u} : updater'[w] = updater[w]
    BY <1>1, <1>2, Numbers, Ended
<1>5. UpdateTypeOK'
  <2>1. u # Agentd /\ Free # Agentd
    BY NoUpdaterIsALock DEF Free, Agentd
  <2>2. /\ installLock' \in Updaters \cup {Free} /\ homeLock' \in Updaters \cup {Free, Agentd}
        /\ homeLock' = Agentd <=> homeLock = Agentd
    BY <1>1, <1>2, <2>1 DEF UpdateTypeOK, Ends, Freed
  <2> QED
    BY <1>1, <1>2, <1>4, <2>2 DEF UpdateTypeOK, UpdaterRecords, Versions
<1>6. FilesAreRight'
  <2>1. CurrentIsInstalled' /\ JournalIsResumable'
    BY <1>1, <1>2, <1>3 DEF FilesAreRight, CurrentIsInstalled, JournalIsResumable, Unfinished
  <2>2. StateIsServable' /\ PhaseIsTrue' /\ DatabaseLeads' /\ PassComesFirst'
    BY <1>1, <1>2 DEF FilesAreRight, StateIsServable, DiscardedBeforeMigration, Unfinished, PhaseIsTrue, DatabaseLeads,
       PassComesFirst
  <2> QED
    BY <2>1, <2>2 DEF FilesAreRight
<1>7. UpdaterIsRight(u)'
    BY <1>1, <1>2, <1>4, RestingIsRight DEF UpdateTypeOK
<1>8. \A w \in Updaters \ {u} : UpdaterIsRight(w)'
    BY <1>1, <1>3, <1>4, <1>2, PointerStays, OthersRest
<1> QED
    BY <1>5, <1>6, <1>7, <1>8 DEF IInv

-----------------------------------------------------------------------------
(* The daemon and the sessions.                                            *)

DaemonRecords ==
    [version : 0..MaxVersion, pc : {"off", "relaunches", "stops", "serves", "drains"}, todo : SUBSET Live]

(* No step of theirs touches what an updater holds or relies on: a marker  *)
(* is removed, and a lock taken and freed, only where no updater is.       *)
LEMMA UpdatersStay ==
    ASSUME IInv, UNCHANGED <<updater, releases, current, journal, schema, installLock>>,
           homeLock' = homeLock \/ homeLock \in {Free, Agentd},
           marker' = marker \/ homeLock = Agentd
    PROVE  \A w \in Updaters : UpdaterIsRight(w)'
<1>1. ASSUME NEW w \in Updaters PROVE UpdaterIsRight(w)'
  <2>1. homeLock = w => homeLock' = w /\ marker' = marker
    BY NoUpdaterIsALock
  <2> QED
    BY <2>1, AtWorkStaysRight DEF IInv
<1> QED
    BY <1>1

(* What a step of theirs has to show.                                      *)
LEMMA DaemonStep ==
    ASSUME IInv, UNCHANGED <<updater, releases, current, journal, schema, installLock, discarded>>,
           homeLock' = homeLock \/ homeLock \in {Free, Agentd},
           marker' = marker \/ homeLock = Agentd,
           homeLock' \in Updaters \cup {Free, Agentd}, homeLock' = Agentd <=> daemon'.pc # "off",
           marker' \in 0..MaxVersion, spawned' \subseteq Versions, daemon' \in DaemonRecords,
           runtime' \in [Live -> 0..MaxVersion], attached' \subseteq Live, deaths' \in 0..MaxDeaths,
           journal.phase = "Migrated" => (marker' # 0 \/ schema = current),
           DatabaseLeads', PassComesFirst'
    PROVE  IInv'
<1>1. UpdateTypeOK /\ FilesAreRight
    BY DEF IInv
<1>2. UpdateTypeOK'
    BY <1>1 DEF UpdateTypeOK, DaemonRecords, Versions
<1>3. CurrentIsInstalled' /\ JournalIsResumable' /\ StateIsServable'
    BY <1>1 DEF FilesAreRight, CurrentIsInstalled, JournalIsResumable, StateIsServable, DiscardedBeforeMigration,
       Unfinished
<1>4. PhaseIsTrue'
    BY <1>1 DEF FilesAreRight, PhaseIsTrue
<1>5. \A w \in Updaters : UpdaterIsRight(w)'
    BY UpdatersStay
<1> QED
    BY <1>2, <1>3, <1>4, <1>5 DEF IInv, FilesAreRight

(* What they rely on.                                                      *)
LEMMA AtRest ==
    ASSUME IInv
    PROVE  /\ homeLock \in Updaters \cup {Free, Agentd} /\ (homeLock = Agentd <=> daemon.pc # "off")
           /\ marker \in 0..MaxVersion /\ spawned \subseteq Versions /\ daemon \in DaemonRecords
           /\ runtime \in [Live -> 0..MaxVersion] /\ attached \subseteq Live /\ deaths \in 0..MaxDeaths
           /\ (journal.phase = "Migrated" => marker # 0 \/ schema = current)
           /\ current \in Versions /\ current \in Nat /\ schema \in Nat /\ 0 \in 0..MaxVersion
           /\ Versions \subseteq 0..MaxVersion
           /\ DatabaseLeads /\ PassComesFirst
BY Numbers, SelfUpdateConstants DEF IInv, UpdateTypeOK, FilesAreRight, PhaseIsTrue, DaemonRecords, Versions

LEMMA SpawningIsRight ==
    ASSUME IInv, CommandStartsDaemon \/ \E v \in Versions : SpawnEnds(v)
    PROVE  IInv'
<1>1. /\ \A v \in spawned' : v \in spawned \/ v = current
      /\ UNCHANGED <<releases, current, journal, marker, schema, installLock, homeLock, daemon, updater,
                     runtime, attached, deaths, discarded>>
    BY DEF CommandStartsDaemon, SpawnEnds
<1>2. spawned' \subseteq Versions
    BY <1>1, AtRest
<1>3. DatabaseLeads'
  <2>1. current <= current
    BY AtRest
  <2>2. \A v \in spawned' : v <= current
    BY <1>1, <2>1, AtRest DEF DatabaseLeads
  <2> QED
    BY <1>1, <2>2, AtRest DEF DatabaseLeads
<1>4. PassComesFirst'
    BY <1>1, AtRest DEF PassComesFirst
<1> QED
    BY <1>1, <1>2, <1>3, <1>4, AtRest, DaemonStep

(* A daemon that opens the database has its schema: it is no newer than    *)
(* the pointer, and the database no older.                                 *)
LEMMA DaemonStartsIsRight ==
    ASSUME IInv, NEW v \in Versions, DaemonStarts(v)
    PROVE  IInv'
<1>1. /\ v \in spawned /\ homeLock = Free /\ spawned' = spawned \ {v}
      /\ UNCHANGED <<releases, current, journal, marker, installLock, updater, runtime, attached, deaths, discarded>>
    BY DEF DaemonStarts
<1>2. spawned' \subseteq Versions /\ \A w \in spawned' : w <= current
    BY <1>1, AtRest DEF DatabaseLeads
<1>3. CASE Openable(v)
  <2> DEFINE d == [version |-> v, pc |-> "relaunches", todo |-> IF marker = 0 THEN {} ELSE Live]
  <2>1. homeLock' = Agentd /\ schema' = v /\ daemon' = d
    BY <1>3 DEF DaemonStarts
  <2>2. d.version = v /\ d.pc = "relaunches" /\ (marker # 0 => d.todo = Live)
    OBVIOUS
  <2>3. d \in DaemonRecords
    BY AtRest DEF DaemonRecords
  <2> HIDE DEF d
  <2>4. v <= current /\ current <= schema /\ schema <= v
    BY <1>1, <1>3, AtRest DEF DatabaseLeads, Openable
  <2>5. v = current /\ schema = current
    BY <2>4, AtRest DEF Versions
  <2>6. DatabaseLeads'
    BY <1>1, <1>2, <2>1, <2>2, <2>5, AtRest DEF DatabaseLeads
  <2>7. PassComesFirst'
    BY <1>1, <2>1, <2>2, <2>5, AtRest DEF PassComesFirst
  <2> QED
    BY <1>1, <1>2, <2>1, <2>2, <2>3, <2>5, <2>6, <2>7, AtRest, DaemonStep
<1>4. CASE ~Openable(v)
  <2>1. UNCHANGED <<homeLock, schema, daemon>>
    BY <1>4 DEF DaemonStarts
  <2>2. DatabaseLeads' /\ PassComesFirst'
    BY <1>1, <1>2, <2>1, AtRest DEF DatabaseLeads, PassComesFirst
  <2> QED
    BY <1>1, <1>2, <2>1, <2>2, AtRest, DaemonStep
<1> QED
    BY <1>3, <1>4

LEMMA DaemonEndsIsRight ==
    ASSUME IInv, RelaunchFails \/ DaemonExits \/ DaemonDies
    PROVE  IInv'
<1>1. /\ daemon.pc # "off" /\ DaemonGone
      /\ UNCHANGED <<releases, current, journal, marker, schema, installLock, spawned, updater,
                     runtime, attached, discarded>>
    BY DEF RelaunchFails, DaemonExits, DaemonDies
<1>2. deaths' \in 0..MaxDeaths
    BY SelfUpdateConstants, AtRest DEF RelaunchFails, DaemonExits, DaemonDies
<1>3. homeLock = Agentd /\ homeLock' = Free /\ Free # Agentd
    BY <1>1, AtRest DEF DaemonGone, Freed, Free, Agentd
<1>4. daemon' \in DaemonRecords /\ daemon'.pc = "off"
    BY <1>1, AtRest DEF DaemonGone, NoDaemon, DaemonRecords
<1>5. DatabaseLeads' /\ PassComesFirst'
    BY <1>1, <1>4, AtRest DEF DatabaseLeads, PassComesFirst
<1> QED
    BY <1>1, <1>2, <1>3, <1>4, <1>5, AtRest, DaemonStep

(* The pass stops one session after another, and serves after the last.    *)
LEMMA PassIsRight ==
    ASSUME IInv, (\E s \in Live : RelaunchesSession(s)) \/ AcknowledgesPass \/ ServesAtOnce
    PROVE  IInv'
<1>1. CASE \E s \in Live : RelaunchesSession(s)
  <2>1. PICK s \in Live : RelaunchesSession(s)
    BY <1>1
  <2>2. /\ daemon.pc = "relaunches" /\ daemon' = [daemon EXCEPT !.todo = @ \ {s}]
        /\ runtime' = [runtime EXCEPT ![s] = 0]
        /\ UNCHANGED <<releases, current, journal, marker, schema, installLock, homeLock, spawned, updater,
                       attached, deaths, discarded>>
    BY <2>1 DEF RelaunchesSession
  <2>3. /\ daemon' \in DaemonRecords /\ daemon'.pc = "relaunches" /\ daemon'.version = daemon.version
        /\ daemon'.todo = daemon.todo \ {s}
    BY <2>2, AtRest DEF DaemonRecords
  <2>4. runtime' \in [Live -> 0..MaxVersion] /\ \A t \in Live : runtime'[t] = IF t = s THEN 0 ELSE runtime[t]
    BY <2>2, AtRest
  <2>5. DatabaseLeads'
    BY <2>2, <2>3, AtRest DEF DatabaseLeads
  <2>6. PassComesFirst'
    BY <2>2, <2>3, <2>4, AtRest DEF PassComesFirst
  <2> QED
    BY <2>2, <2>3, <2>4, <2>5, <2>6, AtRest, DaemonStep
<1>2. CASE AcknowledgesPass
  <2>1. /\ daemon.pc = "relaunches" /\ daemon.todo = {} /\ marker = daemon.version
        /\ daemon' = [daemon EXCEPT !.pc = "serves"] /\ marker' = 0
        /\ UNCHANGED <<releases, current, journal, schema, installLock, homeLock, spawned, updater,
                       runtime, attached, deaths, discarded>>
    BY <1>2 DEF AcknowledgesPass
  <2>2. /\ daemon' \in DaemonRecords /\ daemon'.pc = "serves" /\ daemon'.version = daemon.version
    BY <2>1, AtRest DEF DaemonRecords
  <2>3. homeLock = Agentd /\ daemon.version = current /\ schema = current /\ marker # 0
    BY <2>1, AtRest, SelfUpdateConstants DEF DatabaseLeads, Versions
  <2>4. \A s \in Live : runtime[s] = 0
    BY <2>1, <2>3, AtRest DEF PassComesFirst
  <2>5. DatabaseLeads'
    BY <2>1, <2>2, AtRest DEF DatabaseLeads
  <2>6. PassComesFirst'
    BY <2>1, <2>2, <2>4 DEF PassComesFirst
  <2> QED
    BY <2>1, <2>2, <2>3, <2>5, <2>6, AtRest, DaemonStep
<1>3. CASE ServesAtOnce
  <2>1. /\ daemon.pc = "relaunches" /\ marker = 0 /\ daemon' = [daemon EXCEPT !.pc = "serves", !.todo = {}]
        /\ UNCHANGED <<releases, current, journal, marker, schema, installLock, homeLock, spawned, updater,
                       runtime, attached, deaths, discarded>>
    BY <1>3 DEF ServesAtOnce
  <2>2. /\ daemon' \in DaemonRecords /\ daemon'.pc = "serves" /\ daemon'.version = daemon.version
    BY <2>1, AtRest DEF DaemonRecords
  <2>3. DatabaseLeads' /\ PassComesFirst'
    BY <2>1, <2>2, AtRest DEF DatabaseLeads, PassComesFirst
  <2> QED
    BY <2>1, <2>2, <2>3, AtRest, DaemonStep
<1> QED
    BY <1>1, <1>2, <1>3

LEMMA SessionIsRight ==
    ASSUME IInv, NEW s \in Live, LaunchesHarness(s) \/ TogglesTerminal(s)
    PROVE  IInv'
<1>1. CASE LaunchesHarness(s)
  <2>1. /\ daemon.pc = "serves" /\ runtime' = [runtime EXCEPT ![s] = daemon.version]
        /\ UNCHANGED <<releases, current, journal, marker, schema, installLock, homeLock, spawned, daemon, updater,
                       attached, deaths, discarded>>
    BY <1>1 DEF LaunchesHarness
  <2>2. daemon.version = current
    BY <2>1, AtRest DEF DatabaseLeads
  <2>3. runtime' \in [Live -> 0..MaxVersion] /\ \A t \in Live : runtime'[t] = IF t = s THEN current ELSE runtime[t]
    BY <2>1, <2>2, AtRest
  <2>4. DatabaseLeads' /\ PassComesFirst'
    BY <2>1, <2>3, AtRest DEF DatabaseLeads, PassComesFirst
  <2> QED
    BY <2>1, <2>3, <2>4, AtRest, DaemonStep
<1>2. CASE TogglesTerminal(s)
  <2>1. /\ attached' = (attached \ {s}) \cup ({s} \ attached)
        /\ UNCHANGED <<releases, current, journal, marker, schema, installLock, homeLock, spawned, daemon, updater,
                       runtime, deaths, discarded>>
    BY <1>2 DEF TogglesTerminal
  <2>2. attached' \subseteq Live
    BY <2>1, AtRest
  <2>3. DatabaseLeads' /\ PassComesFirst'
    BY <2>1, AtRest DEF DatabaseLeads, PassComesFirst
  <2> QED
    BY <2>1, <2>2, <2>3, AtRest, DaemonStep
<1> QED
    BY <1>1, <1>2

-----------------------------------------------------------------------------
(* The specification.                                                      *)

LEMMA InitIsRight == UpdateInit => IInv
<1> SUFFICES ASSUME UpdateInit PROVE IInv
    OBVIOUS
<1>1. MaxVersion \in Nat /\ 1 \in Versions /\ 1 \in 0..MaxVersion /\ 0 \in 0..MaxVersion /\ 0 \in 0..MaxDeaths
    BY SelfUpdateConstants DEF Versions
<1>2. /\ journal = NoJournal /\ NoJournal.phase = "Complete" /\ NoJournal.target = 0 /\ NoJournal.previous = 0
      /\ NoJournal \in JournalRecords
    BY <1>1 DEF UpdateInit, NoJournal, JournalRecords, Phases
<1>3. /\ daemon \in DaemonRecords /\ daemon.version = 1 /\ daemon.pc = "serves" /\ daemon.todo = {}
    BY <1>1 DEF UpdateInit, NoDaemon, DaemonRecords
<1>4. /\ updater \in [Updaters -> UpdaterRecords]
      /\ \A u \in Updaters : updater[u] = Resting
    BY <1>1, RestingIsARecord DEF UpdateInit
<1>5. /\ releases = {1} /\ current = 1 /\ marker = 0 /\ schema = 1 /\ installLock = Free /\ homeLock = Agentd
      /\ spawned = {} /\ runtime \in [Live -> {0, 1}] /\ attached = {} /\ deaths = 0 /\ discarded = FALSE
    BY DEF UpdateInit
<1>6. UpdateTypeOK
    BY <1>1, <1>2, <1>3, <1>4, <1>5 DEF UpdateTypeOK, JournalRecords, DaemonRecords, UpdaterRecords
<1>7. FilesAreRight
    BY <1>2, <1>3, <1>5 DEF FilesAreRight, CurrentIsInstalled, JournalIsResumable, StateIsServable,
       DiscardedBeforeMigration, Unfinished, PhaseIsTrue, DatabaseLeads, PassComesFirst
<1>8. ASSUME NEW u \in Updaters PROVE UpdaterIsRight(u)
  <2>1. updater[u].pc = "rests" /\ updater[u].previous = 0
    BY <1>4 DEF Resting
  <2>2. updater[u].previous <= current
    BY <1>5, <2>1
  <2> QED
    BY <2>1, <2>2 DEF UpdaterIsRight, HoldsItsLocks, AimsAtARelease, WorksOnTheJournal, HasDoneItsSteps, Locked, Homed
<1> QED
    BY <1>6, <1>7, <1>8 DEF IInv

LEMMA StepIsRight == IInv /\ [UpdateNext]_updateVars => IInv'
<1> SUFFICES ASSUME IInv, [UpdateNext]_updateVars PROVE IInv'
    OBVIOUS
<1>1. ASSUME NEW u \in Updaters, UpdaterStep(u) PROVE IInv'
    BY <1>1, ResumesIsRight, UpdatesIsRight, LooksIsRight, StagesIsRight, LocksIsRight, ChecksReadinessIsRight,
       TakesHomeIsRight, WritesJournalIsRight, MigratesIsRight, MigrationFailsIsRight, MarksIsRight,
       RecordsMigrationIsRight, ActivatesIsRight, RecordsActivationIsRight, StartsTargetIsRight, VerifiesIsRight,
       PrunesIsRight, EndingIsRight DEF UpdaterStep
<1>2. CASE CommandStartsDaemon \/ \E v \in Versions : DaemonStarts(v) \/ SpawnEnds(v)
    BY <1>2, SpawningIsRight, DaemonStartsIsRight
<1>3. CASE \E s \in Live : RelaunchesSession(s) \/ LaunchesHarness(s) \/ TogglesTerminal(s)
    BY <1>3, PassIsRight, SessionIsRight
<1>4. CASE RelaunchFails \/ AcknowledgesPass \/ ServesAtOnce \/ DaemonExits \/ DaemonDies
    BY <1>4, PassIsRight, DaemonEndsIsRight
<1>5. CASE UNCHANGED updateVars
  <2>1. /\ UNCHANGED <<updater, releases, current, journal, schema, installLock, discarded, homeLock, marker, spawned,
                       daemon, runtime, attached, deaths>>
    BY <1>5 DEF updateVars
  <2>2. DatabaseLeads' /\ PassComesFirst'
    BY <2>1, AtRest DEF DatabaseLeads, PassComesFirst
  <2> QED
    BY <2>1, <2>2, AtRest, DaemonStep
<1> QED
    BY <1>1, <1>2, <1>3, <1>4, <1>5 DEF UpdateNext

LEMMA RightIsRecoverable == IInv => UpdateIsRecoverable
<1> SUFFICES ASSUME IInv PROVE UpdateIsRecoverable
    OBVIOUS
<1>1. UpdateTypeOK /\ CurrentIsInstalled /\ StateIsServable /\ JournalIsResumable
    BY DEF IInv, FilesAreRight
<1>2. NobodyServesAMigration
    BY NoDaemonAtHome DEF NobodyServesAMigration, Homed
<1>3. HarnessesAreRelaunched
    BY AtRest DEF HarnessesAreRelaunched, DatabaseLeads, PassComesFirst
<1> QED
    BY <1>1, <1>2, <1>3 DEF UpdateIsRecoverable

(* Whatever an updater or the daemon dies or fails at, and whoever resumes *)
(* it: the current release is installed, the database is one that it or a  *)
(* resumed update can open, no daemon serves a state that is being         *)
(* migrated, and no session runs on with an older release's harness once   *)
(* the new one serves (upgrade.rs, self_update.rs, sessions/service.rs).   *)
THEOREM UpdateStaysRecoverable == UpdateSpec => []UpdateIsRecoverable
<1> QED
    BY InitIsRight, StepIsRight, RightIsRecoverable, PTL DEF UpdateSpec

-----------------------------------------------------------------------------
(* The panel, the SSH check and the forms of the terminal UI.              *)

PanelStates == {"unknown", "installed", "missing"}
PanelTranscripts == [session : PanelSessions, requestedAt : Int, read : Int,
                     of : PanelSessions \cup {NoSession}, failed : BOOLEAN]
PanelLoads == [session : PanelSessions, at : Int, read : Int]

PanelIsTyped ==
    /\ round \in {"top", "wait"}
    /\ turns \in [PanelSessions -> 0..MaxTurns]
    /\ stopped \in BOOLEAN
    /\ chosen \in PanelSessions \cup {NoSession}
    /\ transcript = NoTranscript \/ transcript \in PanelTranscripts
    /\ turnsLoading = NoLoad \/ turnsLoading \in PanelLoads

FormsAreTyped ==
    /\ round \in {"top", "wait"}
    /\ form \in {"none", "menu", "ask setup", "create", "prompt"}
    /\ prompting \in 0..1 /\ queued \in BOOLEAN
    /\ QueuedFormOpens

\* A load is of turns that were reported, and what it read is not older than what it asked for.
LoadIsRight ==
    turnsLoading # NoLoad =>
        /\ turnsLoading.session # NoSession
        /\ turnsLoading.at <= turns[turnsLoading.session]
        /\ turnsLoading.read # Never => turnsLoading.at <= turnsLoading.read

\* A transcript shows what was asked for it, unless that is what loads.
TranscriptIsRight ==
    transcript # NoTranscript =>
        /\ transcript.of \in {transcript.session, NoSession}
        /\ turnsLoading = NoLoad \/ turnsLoading.session # transcript.session
            => transcript.failed \/ transcript.read >= transcript.requestedAt

\* After the top of a round it is of the selected session, and asked for the newest turns.
TranscriptIsAsked ==
    Waiting /\ transcript # NoTranscript =>
        /\ transcript.session = chosen
        /\ ~stopped /\ turnsLoading = NoLoad => transcript.requestedAt = turns[chosen]

\* A check that may have read the configuration before the line was added is followed by another.
CheckIsFollowed ==
    /\ setup \in PanelStates /\ checking \in PanelStates \cup {NotChecking, "unread"}
    /\ line \in BOOLEAN /\ ours \in BOOLEAN /\ due \in BOOLEAN
    /\ ours => line
    /\ ours /\ ~due => checking # "missing"
    /\ ours /\ ~due /\ checking = NotChecking => setup # "missing"

TurnsInv == PanelIsTyped /\ LoadIsRight /\ TranscriptIsRight /\ TranscriptIsAsked
PanelInv == TurnsInv /\ FormsAreTyped /\ CheckIsFollowed

\* The turns of a session are only ever more, and a request counts those that were reported.
LEMMA AsksForTurns ==
  ASSUME TurnsInv, round' = "wait", transcript_request, UNCHANGED <<turns, stopped, chosen, panel>>
  PROVE TurnsInv'
<1> DEFINE wanted == IF transcript.session = chosen THEN transcript ELSE Fresh(chosen)
<1>t. PanelIsTyped BY DEF TurnsInv
<1>1. CASE chosen = NoSession \/ ~panel
  <2>1. transcript' = NoTranscript /\ turnsLoading' = turnsLoading /\ turns' = turns
        /\ stopped' = stopped /\ chosen' = chosen
    BY <1>1 DEF transcript_request
  <2> QED BY <2>1, ZenonT(60) DEF TurnsInv, PanelIsTyped, LoadIsRight, TranscriptIsRight, TranscriptIsAsked
<1>2. CASE chosen # NoSession /\ panel
  <2>1. chosen \in PanelSessions /\ turns[chosen] \in 0..MaxTurns
    BY <1>2, <1>t DEF PanelIsTyped
  <2>2. wanted \in PanelTranscripts /\ wanted.session = chosen /\ wanted.of \in {chosen, NoSession}
    <3>1. CASE transcript.session = chosen
      <4>1. transcript # NoTranscript
        BY <3>1, <1>2 DEF NoTranscript
      <4> QED BY <4>1, <3>1, <1>t DEF PanelIsTyped, TurnsInv, TranscriptIsRight
    <3>2. CASE transcript.session # chosen
      BY <3>2, <2>1 DEF Fresh, PanelTranscripts, Never
    <3> QED BY <3>1, <3>2
  <2>3. turnsLoading = NoLoad \/ turnsLoading.session # chosen
            => wanted.failed \/ wanted.read >= wanted.requestedAt
    <3>1. CASE transcript.session = chosen
      <4>1. transcript # NoTranscript
        BY <3>1, <1>2 DEF NoTranscript
      <4> QED BY <4>1, <3>1 DEF TurnsInv, TranscriptIsRight
    <3>2. CASE transcript.session # chosen
      BY <3>2 DEF Fresh, Never
    <3> QED BY <3>1, <3>2
  <2>4. CASE stopped \/ turnsLoading # NoLoad \/ wanted.requestedAt = turns[chosen]
    <3>1. transcript' = wanted /\ turnsLoading' = turnsLoading /\ turns' = turns
          /\ stopped' = stopped /\ chosen' = chosen
      BY <1>2, <2>4 DEF transcript_request
    <3>2. PanelIsTyped'
      <4> HIDE DEF wanted
      <4> QED BY <3>1, <2>2, <1>t DEF PanelIsTyped
    <3>3. LoadIsRight'
      BY <3>1 DEF TurnsInv, LoadIsRight
    <3>4. TranscriptIsRight'
      <4> HIDE DEF wanted
      <4> QED BY <3>1, <2>2, <2>3 DEF TranscriptIsRight
    <3>5. TranscriptIsAsked'
      <4> HIDE DEF wanted
      <4> QED BY <3>1, <2>2, <2>4 DEF TranscriptIsAsked
    <3> QED BY <3>2, <3>3, <3>4, <3>5 DEF TurnsInv
  <2>5. CASE ~(stopped \/ turnsLoading # NoLoad \/ wanted.requestedAt = turns[chosen])
    <3>1. /\ transcript' = [wanted EXCEPT !.requestedAt = turns[chosen]]
          /\ turnsLoading' = [session |-> chosen, at |-> turns[chosen], read |-> Never]
          /\ turns' = turns /\ stopped' = stopped /\ chosen' = chosen
      BY <1>2, <2>5 DEF transcript_request
    <3> HIDE DEF wanted
    <3>2. /\ transcript' \in PanelTranscripts /\ transcript'.session = chosen
          /\ transcript'.of = wanted.of /\ transcript'.requestedAt = turns[chosen]
      BY <3>1, <2>1, <2>2 DEF PanelTranscripts
    <3>3. /\ turnsLoading' \in PanelLoads /\ turnsLoading'.session = chosen
          /\ turnsLoading'.at = turns[chosen] /\ turnsLoading'.read = Never
      BY <3>1, <2>1 DEF PanelLoads, Never
    <3>4. turnsLoading' # NoLoad
      BY <3>3, <1>2 DEF NoLoad
    <3>5. PanelIsTyped'
      BY <3>1, <3>2, <3>3, <1>t DEF PanelIsTyped
    <3>6. LoadIsRight'
      BY <3>1, <3>3, <2>1, <1>2 DEF LoadIsRight
    <3>7. TranscriptIsRight'
      BY <3>2, <3>3, <3>4, <2>2 DEF TranscriptIsRight
    <3>8. TranscriptIsAsked'
      BY <3>1, <3>2, <3>4 DEF TranscriptIsAsked
    <3> QED BY <3>5, <3>6, <3>7, <3>8 DEF TurnsInv
  <2> QED BY <2>4, <2>5
<1> QED BY <1>1, <1>2

\* What leaves the turns alone leaves their invariant, unless a round begins to wait.
LEMMA TurnsAreLeft ==
  ASSUME TurnsInv, UNCHANGED transcriptVars, round' = round \/ round' = "top"
  PROVE TurnsInv'
<1>1. turns' = turns /\ stopped' = stopped /\ chosen' = chosen /\ transcript' = transcript
      /\ turnsLoading' = turnsLoading
  BY DEF transcriptVars
<1>2. PanelIsTyped'
  BY <1>1 DEF TurnsInv, PanelIsTyped
<1>3. LoadIsRight'
  BY <1>1 DEF TurnsInv, LoadIsRight
<1>4. TranscriptIsRight'
  BY <1>1 DEF TurnsInv, TranscriptIsRight
<1>5. TranscriptIsAsked'
  BY <1>1 DEF TurnsInv, TranscriptIsAsked, Waiting
<1> QED BY <1>2, <1>3, <1>4, <1>5 DEF TurnsInv

LEMMA TurnsAreRead ==
  ASSUME TurnsInv, ReadsTurns
  PROVE TurnsInv'
<1>1. /\ turnsLoading # NoLoad /\ turnsLoading \in PanelLoads /\ turnsLoading.session # NoSession
      /\ turnsLoading.session \in PanelSessions /\ turnsLoading.at \in Int
      /\ turns[turnsLoading.session] \in 0..MaxTurns
      /\ turnsLoading.at <= turns[turnsLoading.session]
  BY DEF TurnsInv, PanelIsTyped, LoadIsRight, ReadsTurns, PanelLoads
<1>2. turnsLoading' = [turnsLoading EXCEPT !.read = turns[turnsLoading.session]]
      /\ turns' = turns /\ stopped' = stopped /\ chosen' = chosen /\ transcript' = transcript /\ round' = round
  BY DEF ReadsTurns
<1>3. /\ turnsLoading' \in PanelLoads /\ turnsLoading'.session = turnsLoading.session
      /\ turnsLoading'.at = turnsLoading.at /\ turnsLoading'.read = turns[turnsLoading.session]
  BY <1>1, <1>2 DEF PanelLoads
<1>4. PanelIsTyped'
  BY <1>2, <1>3 DEF TurnsInv, PanelIsTyped
<1>5. LoadIsRight'
  BY <1>1, <1>2, <1>3 DEF LoadIsRight
<1>6. turnsLoading' # NoLoad
  <2> SUFFICES ASSUME turnsLoading' = NoLoad PROVE FALSE
    OBVIOUS
  <2>1. turnsLoading'.session = NoSession
    BY DEF NoLoad
  <2> QED BY <2>1, <1>1, <1>3 DEF TurnsInv, LoadIsRight
<1>7. TranscriptIsRight'
  BY <1>1, <1>2, <1>3, <1>6 DEF TurnsInv, TranscriptIsRight
<1>8. TranscriptIsAsked'
  BY <1>1, <1>2, <1>3, <1>6 DEF TurnsInv, TranscriptIsAsked, Waiting
<1> QED BY <1>4, <1>5, <1>7, <1>8 DEF TurnsInv


\* A load that ends counts for its own session only, whatever the selection did meanwhile.
LEMMA LoadIsTaken ==
  ASSUME TurnsInv, NEW ok \in BOOLEAN, transcript_loaded(ok)
  PROVE TurnsInv'
<1>1. /\ turnsLoading # NoLoad /\ turnsLoading \in PanelLoads
      /\ turnsLoading.session # NoSession
      /\ turnsLoading.session \in PanelSessions /\ turnsLoading.at \in Int /\ turnsLoading.read \in Int
      /\ ok => turnsLoading.at <= turnsLoading.read
  BY DEF TurnsInv, PanelIsTyped, LoadIsRight, transcript_loaded, PanelLoads
<1>2. /\ turnsLoading' = NoLoad /\ round' = "top"
      /\ turns' = turns /\ stopped' = stopped /\ chosen' = chosen
      /\ transcript' = IF transcript.session = turnsLoading.session THEN Loaded(ok) ELSE transcript
  BY DEF transcript_loaded, Handles
<1>3. LoadIsRight'
  BY <1>2 DEF LoadIsRight
<1>4. TranscriptIsAsked'
  BY <1>2 DEF TranscriptIsAsked, Waiting
<1>5. CASE transcript.session = turnsLoading.session
  <2>1. transcript # NoTranscript
    BY <1>5, <1>1 DEF NoTranscript
  <2>2. transcript \in PanelTranscripts /\ transcript.of \in {transcript.session, NoSession}
    BY <2>1 DEF TurnsInv, PanelIsTyped, TranscriptIsRight
  <2>3. transcript' = [transcript EXCEPT !.requestedAt = turnsLoading.at, !.failed = ~ok,
                       !.read = IF ok THEN turnsLoading.read ELSE @,
                       !.of = IF ok THEN turnsLoading.session ELSE @]
    BY <1>2, <1>5 DEF Loaded
  <2>4. CASE ok
    <3>1. transcript' = [transcript EXCEPT !.requestedAt = turnsLoading.at, !.failed = FALSE,
                         !.read = turnsLoading.read, !.of = turnsLoading.session]
      BY <2>3, <2>4
    <3>2. /\ transcript' \in PanelTranscripts /\ transcript'.session = turnsLoading.session
          /\ transcript'.of = turnsLoading.session
          /\ transcript'.requestedAt = turnsLoading.at /\ transcript'.read = turnsLoading.read
      BY <3>1, <2>2, <1>1, <1>5 DEF PanelTranscripts
    <3>3. PanelIsTyped'
      BY <3>2, <1>2 DEF TurnsInv, PanelIsTyped
    <3>4. TranscriptIsRight'
      BY <3>2, <1>1, <2>4 DEF TranscriptIsRight
    <3> QED BY <3>3, <3>4, <1>3, <1>4 DEF TurnsInv
  <2>5. CASE ~ok
    <3>1. transcript' = [transcript EXCEPT !.requestedAt = turnsLoading.at, !.failed = TRUE]
      BY <2>3, <2>5, <2>2 DEF PanelTranscripts
    <3>2. /\ transcript' \in PanelTranscripts /\ transcript'.session = transcript.session
          /\ transcript'.of = transcript.of
      BY <3>1, <2>2, <1>1 DEF PanelTranscripts
    <3>3. transcript'.failed
      BY <3>1, <2>2, ZenonT(30) DEF PanelTranscripts
    <3>4. PanelIsTyped'
      BY <3>2, <1>2 DEF TurnsInv, PanelIsTyped
    <3>5. TranscriptIsRight'
      BY <3>2, <3>3, <2>2 DEF TranscriptIsRight
    <3> QED BY <3>4, <3>5, <1>3, <1>4 DEF TurnsInv
  <2> QED BY <2>4, <2>5
<1>6. CASE transcript.session # turnsLoading.session
  <2>1. transcript' = transcript
    BY <1>2, <1>6
  <2>2. PanelIsTyped'
    BY <2>1, <1>2 DEF TurnsInv, PanelIsTyped
  <2>3. TranscriptIsRight'
    BY <2>1, <1>2, <1>6, ZenonT(30) DEF TurnsInv, TranscriptIsRight
  <2> QED BY <2>2, <2>3, <1>3, <1>4 DEF TurnsInv
<1> QED BY <1>5, <1>6

\* A snapshot, a key and a resize end the wait: what is asked for is looked at next.
LEMMA TurnsAreNoted ==
  ASSUME TurnsInv, round' = "top", UNCHANGED <<transcript, turnsLoading>>,
         chosen' \in PanelSessions \cup {NoSession}, stopped' \in BOOLEAN,
         \/ turns' = turns
         \/ \E s \in PanelSessions : turns[s] < MaxTurns /\ turns' = [turns EXCEPT ![s] = @ + 1]
  PROVE TurnsInv'
<1>1. turns' \in [PanelSessions -> 0..MaxTurns] /\ \A s \in PanelSessions : turns[s] <= turns'[s]
  <2>1. CASE turns' = turns
    BY <2>1 DEF TurnsInv, PanelIsTyped
  <2>2. ASSUME NEW s \in PanelSessions, turns[s] < MaxTurns, turns' = [turns EXCEPT ![s] = @ + 1]
        PROVE turns' \in [PanelSessions -> 0..MaxTurns] /\ \A t \in PanelSessions : turns[t] <= turns'[t]
    BY <2>2, PanelConstants DEF TurnsInv, PanelIsTyped
  <2> QED BY <2>1, <2>2
<1>2. PanelIsTyped'
  BY <1>1 DEF TurnsInv, PanelIsTyped
<1>3. LoadIsRight'
  <2>1. ASSUME turnsLoading # NoLoad PROVE turnsLoading.at <= turns'[turnsLoading.session]
    <3>1. /\ turnsLoading.session \in PanelSessions /\ turnsLoading.at \in Int
          /\ turnsLoading.at <= turns[turnsLoading.session]
      BY <2>1 DEF TurnsInv, PanelIsTyped, LoadIsRight, PanelLoads
    <3>2. turns[turnsLoading.session] \in Int /\ turns'[turnsLoading.session] \in Int
          /\ turns[turnsLoading.session] <= turns'[turnsLoading.session]
      BY <3>1, <1>1 DEF TurnsInv, PanelIsTyped
    <3> QED BY <3>1, <3>2
  <2> QED BY <2>1 DEF TurnsInv, LoadIsRight
<1>4. TranscriptIsRight'
  BY DEF TurnsInv, TranscriptIsRight
<1>5. TranscriptIsAsked'
  BY DEF TranscriptIsAsked, Waiting
<1> QED BY <1>2, <1>3, <1>4, <1>5 DEF TurnsInv

\* Every step keeps what the panel knows of its turns.
LEMMA TurnsStay ==
  ASSUME PanelInv, PanelNext
  PROVE TurnsInv'
<1>t. TurnsInv BY DEF PanelInv
<1>1. CASE TopOfRound
  BY <1>1, <1>t, AsksForTurns DEF TopOfRound
<1>2. CASE ReadsTurns
  BY <1>2, <1>t, TurnsAreRead
<1>3. CASE SnapshotArrives
  BY <1>3, <1>t, TurnsAreNoted DEF SnapshotArrives, Handles, TurnsInv, PanelIsTyped
<1>4. CASE Resizes
  <2>1. /\ round' = "top" /\ turns' = turns /\ stopped' = stopped /\ chosen' = chosen
        /\ transcript' = transcript /\ turnsLoading' = turnsLoading
        /\ chosen' \in PanelSessions \cup {NoSession} /\ stopped' \in BOOLEAN
    BY <1>4, <1>t DEF Resizes, Handles, TurnsInv, PanelIsTyped
  <2> QED BY <2>1, <1>t, TurnsAreNoted
<1>5. ASSUME NEW ok \in BOOLEAN, transcript_loaded(ok) \/ PromptSent(ok) PROVE TurnsInv'
  <2>1. CASE transcript_loaded(ok)
    BY <2>1, <1>t, LoadIsTaken
  <2>2. CASE PromptSent(ok)
    BY <2>2, <1>t, TurnsAreLeft DEF PromptSent, Handles
  <2> QED BY <1>5, <2>1, <2>2
<1>6. ASSUME NEW s \in PanelSessions \cup {NoSession}, Selects(s) PROVE TurnsInv'
  <2>1. /\ round' = "top" /\ turns' = turns /\ stopped' = stopped /\ chosen' = s
        /\ transcript' = transcript /\ turnsLoading' = turnsLoading /\ stopped' \in BOOLEAN
    BY <1>6, <1>t DEF Selects, Handles, TurnsInv, PanelIsTyped
  <2> QED BY <2>1, <1>t, TurnsAreNoted
<1>7. CASE CheckReads \/ EditsConfig
  <2>1. UNCHANGED transcriptVars /\ round' = round
    BY <1>7 DEF CheckReads, EditsConfig
  <2> QED BY <2>1, <1>t, TurnsAreLeft
<1>8. CASE ssh_checked \/ OpensMenu \/ Chooses \/ ssh_set_up \/ DeclinesSetup
  <2>1. UNCHANGED transcriptVars /\ round' = "top"
    BY <1>8 DEF ssh_checked, OpensMenu, Chooses, ssh_set_up, DeclinesSetup, Handles
  <2> QED BY <2>1, <1>t, TurnsAreLeft
<1>9. CASE OpensCreate \/ manifests_discovered \/ OpensPrompt \/ SendsPrompt \/ Closes
  <2>1. UNCHANGED transcriptVars /\ round' = "top"
    BY <1>9 DEF OpensCreate, manifests_discovered, OpensPrompt, SendsPrompt, Closes, Handles
  <2> QED BY <2>1, <1>t, TurnsAreLeft
<1> QED BY <1>1, <1>2, <1>3, <1>4, <1>5, <1>6, <1>7, <1>8, <1>9 DEF PanelNext


\* A form that was queued opens before the loop waits with nothing open.
LEMMA FormsStay ==
  ASSUME PanelInv, PanelNext
  PROVE FormsAreTyped'
<1>f. FormsAreTyped BY DEF PanelInv
<1>1. CASE TopOfRound
  BY <1>1, <1>f DEF TopOfRound, open_queued_create, FormsAreTyped, QueuedFormOpens, Waiting, Idle
<1>2. CASE ReadsTurns \/ CheckReads \/ EditsConfig
  <2>1. round' = round /\ form' = form /\ prompting' = prompting /\ queued' = queued
    BY <1>2 DEF ReadsTurns, CheckReads, EditsConfig, createVars
  <2> QED BY <2>1, <1>f DEF FormsAreTyped, QueuedFormOpens, Waiting, Idle
<1>3. CASE SnapshotArrives \/ Resizes \/ ssh_checked \/ OpensCreate
           \/ (\E ok \in BOOLEAN : transcript_loaded(ok)) \/ (\E s \in PanelSessions \cup {NoSession} : Selects(s))
  <2>1. round' = "top" /\ form' = form /\ prompting' = prompting /\ queued' = queued
    BY <1>3 DEF SnapshotArrives, Resizes, ssh_checked, OpensCreate, transcript_loaded, Selects, Handles, createVars
  <2> QED BY <2>1, <1>f DEF FormsAreTyped, QueuedFormOpens, Waiting, Idle
<1>4. CASE OpensMenu \/ Chooses \/ ssh_set_up \/ DeclinesSetup \/ OpensPrompt \/ Closes
  <2>1. /\ round' = "top" /\ prompting' = prompting /\ queued' = queued
        /\ form' \in {"none", "menu", "ask setup", "create", "prompt"}
    BY <1>4 DEF OpensMenu, Chooses, ssh_set_up, DeclinesSetup, OpensPrompt, Closes, Handles, createVars
  <2> QED BY <2>1, <1>f DEF FormsAreTyped, QueuedFormOpens, Waiting
<1>5. CASE manifests_discovered
  BY <1>5, <1>f DEF manifests_discovered, Handles, FormsAreTyped, QueuedFormOpens, Waiting, Idle
<1>6. CASE SendsPrompt
  BY <1>6, <1>f DEF SendsPrompt, Handles, createVars, FormsAreTyped, QueuedFormOpens, Waiting
<1>7. ASSUME NEW ok \in BOOLEAN, PromptSent(ok) PROVE FormsAreTyped'
  <2>0. prompting > 0 /\ prompting' = prompting - 1 /\ form' \in {"prompt", form}
    BY <1>7, SMTT(30) DEF PromptSent
  <2>1. round' = "top" /\ queued' = queued
    BY <1>7, ZenonT(30) DEF PromptSent, Handles, createVars
  <2>2. prompting' \in 0..1
    <3>1. prompting \in 0..1
      BY <1>f DEF FormsAreTyped
    <3> QED BY <3>1, <2>0
  <2> QED BY <2>0, <2>1, <2>2, <1>f, ZenonT(30) DEF FormsAreTyped, QueuedFormOpens, Waiting
<1> QED BY <1>1, <1>2, <1>3, <1>4, <1>5, <1>6, <1>7 DEF PanelNext

\* A check that read the configuration before the line was added does not have the last word.
LEMMA ChecksStay ==
  ASSUME PanelInv, PanelNext
  PROVE CheckIsFollowed'
<1>c. CheckIsFollowed BY DEF PanelInv
<1>1. CASE TopOfRound
  BY <1>1, <1>c DEF TopOfRound, ssh_check_request, CheckIsFollowed, PanelStates, NotChecking
<1>2. CASE CheckReads
  BY <1>2, <1>c DEF CheckReads, CheckIsFollowed, PanelStates, NotChecking
<1>3. CASE ssh_checked
  BY <1>3, <1>c DEF ssh_checked, CheckIsFollowed, PanelStates, NotChecking
<1>4. CASE OpensMenu \/ DeclinesSetup
  <2>1. /\ line' = line /\ ours' = ours /\ setup' = setup /\ checking' = checking /\ due' = TRUE
    BY <1>4 DEF OpensMenu, DeclinesSetup
  <2> QED BY <2>1, <1>c, ZenonT(30) DEF CheckIsFollowed
<1>5. CASE ssh_set_up
  BY <1>5, <1>c DEF ssh_set_up, CheckIsFollowed, PanelStates
<1>6. CASE EditsConfig
  BY <1>6, <1>c DEF EditsConfig, CheckIsFollowed
<1>7. CASE \/ ReadsTurns \/ SnapshotArrives \/ Resizes \/ Chooses \/ OpensCreate \/ manifests_discovered
           \/ OpensPrompt \/ SendsPrompt \/ Closes
           \/ (\E ok \in BOOLEAN : transcript_loaded(ok) \/ PromptSent(ok))
           \/ (\E s \in PanelSessions \cup {NoSession} : Selects(s))
  <2>1. UNCHANGED sshVars
    BY <1>7 DEF ReadsTurns, SnapshotArrives, Resizes, Chooses, OpensCreate, manifests_discovered, OpensPrompt,
                SendsPrompt, Closes, transcript_loaded, PromptSent, Selects
  <2>2. /\ line' = line /\ ours' = ours /\ setup' = setup /\ checking' = checking /\ due' = due
    BY <2>1 DEF sshVars
  <2> QED BY <2>2, <1>c DEF CheckIsFollowed
<1> QED BY <1>1, <1>2, <1>3, <1>4, <1>5, <1>6, <1>7 DEF PanelNext

\* The panel is never that of another session nor older than its last request, a check that
\* ended too early is repeated and a queued form opens, for any sessions, turns and edits
\* (tui/app.rs, the event loop of tui/mod.rs).
THEOREM PanelStaysCurrent == PanelSpec => []PanelIsCurrent
<1>1. PanelInit => PanelInv
  <2> SUFFICES ASSUME PanelInit PROVE PanelInv
    OBVIOUS
  <2>1. TurnsInv
    <3>1. /\ round = "top" /\ turns = [s \in PanelSessions |-> 0] /\ stopped = FALSE /\ chosen = NoSession
          /\ transcript = NoTranscript /\ turnsLoading = NoLoad
      BY DEF PanelInit
    <3>2. turns \in [PanelSessions -> 0..MaxTurns]
      BY <3>1, PanelConstants
    <3> QED BY <3>1, <3>2 DEF TurnsInv, PanelIsTyped, LoadIsRight, TranscriptIsRight, TranscriptIsAsked, Waiting
  <2>2. FormsAreTyped
    <3>1. round = "top" /\ form = "none" /\ queued = FALSE /\ prompting = 0
      BY DEF PanelInit
    <3>2. prompting \in 0..1
      BY <3>1
    <3> QED BY <3>1, <3>2, ZenonT(30) DEF FormsAreTyped, QueuedFormOpens, Waiting
  <2>3. CheckIsFollowed
    BY DEF PanelInit, CheckIsFollowed, PanelStates, NotChecking
  <2> QED BY <2>1, <2>2, <2>3 DEF PanelInv
<1>2. PanelInv /\ [PanelNext]_panelVars => PanelInv'
  <2> SUFFICES ASSUME PanelInv, [PanelNext]_panelVars PROVE PanelInv'
    OBVIOUS
  <2>1. CASE PanelNext
    BY <2>1, TurnsStay, FormsStay, ChecksStay DEF PanelInv
  <2>2. CASE UNCHANGED panelVars
    <3>1. /\ round' = round /\ form' = form /\ prompting' = prompting /\ queued' = queued
          /\ UNCHANGED transcriptVars /\ UNCHANGED sshVars
      BY <2>2 DEF panelVars, createVars
    <3>2. TurnsInv'
      BY <3>1, TurnsAreLeft DEF PanelInv
    <3>3. FormsAreTyped'
      BY <3>1 DEF PanelInv, FormsAreTyped, QueuedFormOpens, Waiting, Idle
    <3>4. CheckIsFollowed'
      <4>1. /\ line' = line /\ ours' = ours /\ setup' = setup /\ checking' = checking /\ due' = due
        BY <3>1 DEF sshVars
      <4> QED BY <4>1 DEF PanelInv, CheckIsFollowed
    <3> QED BY <3>2, <3>3, <3>4 DEF PanelInv
  <2> QED BY <2>1, <2>2
<1>3. PanelInv => PanelIsCurrent
  <2> SUFFICES ASSUME PanelInv PROVE PanelIsCurrent
    OBVIOUS
  <2>1. PanelTypeOK
    BY DEF PanelInv, TurnsInv, PanelIsTyped, LoadIsRight, FormsAreTyped, CheckIsFollowed, PanelTypeOK,
           PanelTranscripts, PanelLoads, PanelStates
  <2>2. PanelCatchesUp
    BY DEF PanelInv, TurnsInv, TranscriptIsRight, TranscriptIsAsked, PanelCatchesUp
  <2>3. PanelShowsItsSession
    BY DEF PanelInv, TurnsInv, TranscriptIsRight, TranscriptIsAsked, PanelShowsItsSession
  <2>4. SetupIsRechecked
    BY DEF PanelInv, CheckIsFollowed, SetupIsRechecked
  <2>5. QueuedFormOpens
    BY DEF PanelInv, FormsAreTyped
  <2> QED BY <2>1, <2>2, <2>3, <2>4, <2>5 DEF PanelIsCurrent
<1> QED BY <1>1, <1>2, <1>3, PTL DEF PanelSpec

\* No answer that arrives replaces the form that the user has open (tui/app.rs).
THEOREM AnswersLeaveTheForm == PanelSpec => FormIsTheUsers
<1> DEFINE Leaves == \A ok \in BOOLEAN : form # "none" /\ (manifests_discovered \/ transcript_loaded(ok) \/ ssh_checked
            \/ (prompting' < prompting)) => form' = form
<1>1. PanelInit => prompting \in Nat
  BY DEF PanelInit
<1>2. ASSUME prompting \in Nat, PanelNext
      PROVE \/ \E ok \in BOOLEAN : PromptSent(ok)
            \/ prompting' \in {prompting, prompting + 1}
  <2>1. CASE TopOfRound \/ ReadsTurns \/ SnapshotArrives \/ Resizes \/ CheckReads \/ ssh_checked
    BY <2>1 DEF TopOfRound, ReadsTurns, SnapshotArrives, Resizes, CheckReads, ssh_checked
  <2>2. CASE OpensMenu \/ Chooses \/ ssh_set_up \/ DeclinesSetup \/ EditsConfig \/ OpensCreate \/ manifests_discovered
    BY <2>2 DEF OpensMenu, Chooses, ssh_set_up, DeclinesSetup, EditsConfig, OpensCreate, manifests_discovered
  <2>3. CASE OpensPrompt \/ SendsPrompt \/ Closes
    BY <2>3 DEF OpensPrompt, SendsPrompt, Closes
  <2>4. ASSUME NEW ok \in BOOLEAN, transcript_loaded(ok) \/ PromptSent(ok)
        PROVE PromptSent(ok) \/ prompting' = prompting
    BY <2>4 DEF transcript_loaded
  <2>5. ASSUME NEW s \in PanelSessions \cup {NoSession}, Selects(s) PROVE prompting' = prompting
    BY <2>5 DEF Selects
  <2> QED BY <1>2, <2>1, <2>2, <2>3, <2>4, <2>5 DEF PanelNext
<1>3. prompting \in Nat /\ [PanelNext]_panelVars => (prompting \in Nat)'
  <2> SUFFICES ASSUME prompting \in Nat, [PanelNext]_panelVars PROVE prompting' \in Nat
    OBVIOUS
  <2>1. CASE PanelNext
    <3>1. ASSUME NEW ok \in BOOLEAN, PromptSent(ok) PROVE prompting' \in Nat
      BY <3>1 DEF PromptSent
    <3> QED BY <1>2, <2>1, <3>1
  <2>2. CASE UNCHANGED panelVars
    BY <2>2 DEF panelVars
  <2> QED BY <2>1, <2>2
<1>4. prompting \in Nat /\ [PanelNext]_panelVars => [Leaves]_panelVars
  <2> SUFFICES ASSUME prompting \in Nat, PanelNext, NEW ok \in BOOLEAN, form # "none",
                      manifests_discovered \/ transcript_loaded(ok) \/ ssh_checked \/ (prompting' < prompting)
               PROVE form' = form
    OBVIOUS
  <2>1. CASE manifests_discovered \/ transcript_loaded(ok) \/ ssh_checked
    BY <2>1 DEF manifests_discovered, transcript_loaded, ssh_checked, Idle
  <2>2. CASE prompting' < prompting
    <3>1. \E done \in BOOLEAN : PromptSent(done)
      BY <1>2, <2>2
    <3> QED BY <3>1 DEF PromptSent, Idle
  <2> QED BY <2>1, <2>2
<1> QED BY <1>1, <1>3, <1>4, PTL DEF PanelSpec, FormIsTheUsers

-----------------------------------------------------------------------------
(* Port forwards and desktops of the terminal UI.                          *)

FwdKinds == {"create", "open"}
FwdTasks == [no : Nat, kind : FwdKinds, agent : FwdAgents, port : Viewers, replace : Int,
             forwards : BOOLEAN, box : Nat]
FwdHeld == [id : Nat, agent : FwdAgents, port : Viewers, box : Nat, by : FwdKinds, over : BOOLEAN]
FwdSnapshots == [FwdAgents -> NoAgent..MaxBoxes]
FwdMessages == [kind : {"resources"}, agents : FwdSnapshots] \cup [kind : FwdKinds, task : FwdTasks, ok : BOOLEAN]

IsAnswer(m) == m.kind # "resources"
AnswersIn(q) == {q[i].task : i \in {j \in DOMAIN q : IsAnswer(q[j])}}
Waits == tasks \cup AnswersIn(inbox)

ForwardsAreTyped ==
    /\ box \in FwdSnapshots /\ listedBox \in FwdSnapshots
    /\ boxes \in 0..MaxBoxes
    /\ tasks \in SUBSET FwdTasks /\ inbox \in Seq(FwdMessages) /\ Len(inbox) <= MaxInbox
    /\ started \in 0..MaxTasks
    /\ left \in {"no", "asked", "unasked"}
    /\ dialog.kind = "forward" => dialog.agent \in FwdAgents /\ dialog.replace \in Int

\* What is held reaches its agent and has an id of its own.
HeldInv ==
    /\ held \in SUBSET FwdHeld /\ nextId \in Nat \ {0}
    /\ \A f \in held : f.id \in 1..(nextId - 1) /\ f.box \in 1..MaxBoxes
    /\ \A f, g \in held : f.id = g.id => f = g
    /\ HeldReachesItsAgent
    /\ OneDesktopPerViewer

\* Of the tasks W among the n started: numbers of their own, no two that open one desktop, none that
\* forwards one which h forwards and serves; o and c are the UI's record of them.
IsOpen(t, a, p) == t.kind = "open" /\ t.agent = a /\ t.port = p
TaskIsRight(t, n) ==
    /\ t \in FwdTasks /\ t.no \in 1..n /\ t.box \in 0..MaxBoxes
    /\ t.kind = "create" => t.forwards
Serves(f, t) == f.by = "open" /\ ~f.over /\ f.agent = t.agent /\ f.port = t.port
OpensAgain(t, h) == t.kind = "open" /\ t.forwards /\ \E f \in h : Serves(f, t)
CreatesIn(W) == {t \in W : t.kind = "create"}
OpensIn(W) == {<<t.agent, t.port>> : t \in {u \in W : u.kind = "open"}}
TasksAreRight(W, n, h, o, c) ==
    /\ n \in Nat
    /\ \A t \in W : TaskIsRight(t, n) /\ ~OpensAgain(t, h)
    /\ \A t, u \in W : t.no = u.no => t = u
    /\ \A t, u \in W : t.kind = "open" /\ IsOpen(u, t.agent, t.port) => t = u
    /\ o = OpensIn(W)
    /\ IsFiniteSet(CreatesIn(W)) /\ c = Cardinality(CreatesIn(W)) /\ c <= n

\* Each task has one answer, and what started a forward knows its sandbox.
AnswersAreOnce ==
    /\ \A t \in tasks, i \in DOMAIN inbox : IsAnswer(inbox[i]) => inbox[i].task.no # t.no
    /\ \A i, j \in DOMAIN inbox :
            IsAnswer(inbox[i]) /\ IsAnswer(inbox[j]) /\ inbox[i].task.no = inbox[j].task.no => i = j
    /\ \A i \in DOMAIN inbox :
            IsAnswer(inbox[i]) =>
                /\ inbox[i].task.kind = inbox[i].kind
                /\ inbox[i].ok /\ inbox[i].task.forwards => inbox[i].task.box # Unassigned

WaitsInv == TasksAreRight(Waits, started, held, opening, creating) /\ AnswersAreOnce
HeldForwardsInv == ForwardsAreTyped /\ HeldInv /\ WaitsInv

\* A task that starts gets the next number, and the UI records what it waits for.
LEMMA ATaskMore ==
  ASSUME NEW W, NEW n, NEW h, NEW o, NEW c, TasksAreRight(W, n, h, o, c),
         NEW t \in FwdTasks, t.no = n + 1, t.box = Unassigned, ~OpensAgain(t, h)
  PROVE /\ t.kind = "create" /\ t.forwards => TasksAreRight(W \cup {t}, n + 1, h, o, c + 1)
        /\ t.kind = "open" /\ <<t.agent, t.port>> \notin o
              => TasksAreRight(W \cup {t}, n + 1, h, o \cup {<<t.agent, t.port>>}, c)
<1>1. n \in Nat /\ n + 1 \in Nat
  BY DEF TasksAreRight
<1>2. \A u \in W : u.no \in 1..n
  BY DEF TasksAreRight, TaskIsRight
<1>3. \A u \in W : u.no # t.no
  BY <1>1, <1>2
<1>4. t \notin W
  BY <1>3
<1>5. TaskIsRight(t, n + 1) <=> (t.kind = "create" => t.forwards)
  <2>1. t.no \in 1..(n + 1) /\ t.box \in 0..MaxBoxes
    BY <1>1, ForwardBounds DEF Unassigned
  <2> QED BY <2>1 DEF TaskIsRight
<1>6. \A u \in W : TaskIsRight(u, n + 1) /\ ~OpensAgain(u, h)
  <2> SUFFICES ASSUME NEW u \in W PROVE TaskIsRight(u, n + 1) /\ ~OpensAgain(u, h)
    OBVIOUS
  <2>1. TaskIsRight(u, n) /\ ~OpensAgain(u, h)
    BY DEF TasksAreRight
  <2>2. u.no \in 1..(n + 1)
    BY <1>1, <1>2
  <2> QED BY <2>1, <2>2 DEF TaskIsRight
<1>7. \A u, v \in W \cup {t} : u.no = v.no => u = v
  BY <1>3, ZenonT(60) DEF TasksAreRight
<1>8. ASSUME t.kind = "create", t.forwards PROVE TasksAreRight(W \cup {t}, n + 1, h, o, c + 1)
  <2>1. CreatesIn(W \cup {t}) = CreatesIn(W) \cup {t} /\ t \notin CreatesIn(W)
    BY <1>4, <1>8 DEF CreatesIn
  <2>2. IsFiniteSet(CreatesIn(W \cup {t})) /\ Cardinality(CreatesIn(W \cup {t})) = Cardinality(CreatesIn(W)) + 1
    <3>1. IsFiniteSet(CreatesIn(W))
      BY DEF TasksAreRight
    <3> QED BY <2>1, <3>1, FS_AddElement
  <2>3. c + 1 <= n + 1
    BY <1>1, FS_CardinalityType DEF TasksAreRight
  <2>4. OpensIn(W \cup {t}) = OpensIn(W)
    <3>1. {u \in W \cup {t} : u.kind = "open"} = {u \in W : u.kind = "open"}
      BY <1>8
    <3> QED BY <3>1 DEF OpensIn
  <2>5. \A u, v \in W \cup {t} : u.kind = "open" /\ IsOpen(v, u.agent, u.port) => u = v
    BY <1>8 DEF TasksAreRight, IsOpen
  <2>6. \A u \in W \cup {t} : TaskIsRight(u, n + 1) /\ ~OpensAgain(u, h)
    BY <1>5, <1>6, <1>8
  <2> QED BY <1>1, <1>7, <2>2, <2>3, <2>4, <2>5, <2>6 DEF TasksAreRight
<1>9. ASSUME t.kind = "open", <<t.agent, t.port>> \notin o
      PROVE TasksAreRight(W \cup {t}, n + 1, h, o \cup {<<t.agent, t.port>>}, c)
  <2>1. CreatesIn(W \cup {t}) = CreatesIn(W)
    BY <1>9 DEF CreatesIn
  <2>2. c <= n + 1
    BY <1>1, FS_CardinalityType DEF TasksAreRight
  <2>3. OpensIn(W \cup {t}) = OpensIn(W) \cup {<<t.agent, t.port>>}
    <3>1. {u \in W \cup {t} : u.kind = "open"} = {u \in W : u.kind = "open"} \cup {t}
      BY <1>9
    <3> QED BY <3>1, ZenonT(60) DEF OpensIn
  <2>4. \A u \in W : ~IsOpen(u, t.agent, t.port)
    <3> SUFFICES ASSUME NEW u \in W, IsOpen(u, t.agent, t.port) PROVE FALSE
      OBVIOUS
    <3>1. u \in {v \in W : v.kind = "open"} /\ u.agent = t.agent /\ u.port = t.port
      BY DEF IsOpen
    <3>2. <<t.agent, t.port>> \in OpensIn(W)
      BY <3>1 DEF OpensIn
    <3> QED BY <3>2, <1>9 DEF TasksAreRight
  <2>5. \A u, v \in W \cup {t} : u.kind = "open" /\ IsOpen(v, u.agent, u.port) => u = v
    <3> SUFFICES ASSUME NEW u \in W \cup {t}, NEW v \in W \cup {t}, u.kind = "open", IsOpen(v, u.agent, u.port)
                 PROVE u = v
      OBVIOUS
    <3>1. CASE u \in W /\ v \in W
      BY <3>1 DEF TasksAreRight
    <3>2. CASE u = t /\ v \in W
      BY <3>2, <2>4
    <3>3. CASE u \in W /\ v = t
      <4>1. IsOpen(u, t.agent, t.port)
        BY <3>3 DEF IsOpen
      <4> QED BY <4>1, <3>3, <2>4
    <3> QED BY <3>1, <3>2, <3>3
  <2>6. \A u \in W \cup {t} : TaskIsRight(u, n + 1) /\ ~OpensAgain(u, h)
    BY <1>5, <1>6, <1>9
  <2> QED BY <1>1, <1>7, <2>1, <2>2, <2>3, <2>5, <2>6 DEF TasksAreRight
<1> QED BY <1>8, <1>9

\* A task that is answered takes with it what the UI recorded of it, and nothing of another's.
LEMMA ATaskLess ==
  ASSUME NEW W, NEW n, NEW h, NEW o, NEW c, TasksAreRight(W, n, h, o, c), NEW t \in W
  PROVE /\ t.kind = "create" => TasksAreRight(W \ {t}, n, h, o, c - 1)
        /\ t.kind = "open" => /\ TasksAreRight(W \ {t}, n, h, o \ {<<t.agent, t.port>>}, c)
                              /\ \A u \in W \ {t} : ~IsOpen(u, t.agent, t.port)
<1>1. /\ n \in Nat
      /\ \A u \in W \ {t} : TaskIsRight(u, n) /\ ~OpensAgain(u, h)
      /\ \A u, v \in W \ {t} : u.no = v.no => u = v
      /\ \A u, v \in W \ {t} : u.kind = "open" /\ IsOpen(v, u.agent, u.port) => u = v
  BY DEF TasksAreRight
<1>2. ASSUME t.kind = "create" PROVE TasksAreRight(W \ {t}, n, h, o, c - 1)
  <2>1. CreatesIn(W \ {t}) = CreatesIn(W) \ {t} /\ t \in CreatesIn(W)
    BY <1>2 DEF CreatesIn
  <2>2. IsFiniteSet(CreatesIn(W \ {t})) /\ Cardinality(CreatesIn(W \ {t})) = Cardinality(CreatesIn(W)) - 1
    BY <2>1, FS_RemoveElement DEF TasksAreRight
  <2>3. c - 1 <= n
    BY <1>1, FS_CardinalityType DEF TasksAreRight
  <2>4. OpensIn(W \ {t}) = OpensIn(W)
    <3>1. {u \in W \ {t} : u.kind = "open"} = {u \in W : u.kind = "open"}
      BY <1>2
    <3> QED BY <3>1 DEF OpensIn
  <2> QED BY <1>1, <2>2, <2>3, <2>4 DEF TasksAreRight
<1>3. ASSUME t.kind = "open"
      PROVE /\ TasksAreRight(W \ {t}, n, h, o \ {<<t.agent, t.port>>}, c)
            /\ \A u \in W \ {t} : ~IsOpen(u, t.agent, t.port)
  <2>1. CreatesIn(W \ {t}) = CreatesIn(W)
    BY <1>3 DEF CreatesIn
  <2>2. \A u \in W \ {t} : ~IsOpen(u, t.agent, t.port)
    BY <1>3 DEF TasksAreRight
  <2>3. OpensIn(W \ {t}) = OpensIn(W) \ {<<t.agent, t.port>>}
    <3>1. ASSUME NEW u \in W \ {t}, u.kind = "open" PROVE <<u.agent, u.port>> # <<t.agent, t.port>>
      BY <3>1, <2>2 DEF IsOpen
    <3>2. OpensIn(W \ {t}) \subseteq OpensIn(W) \ {<<t.agent, t.port>>}
      BY <3>1, ZenonT(60) DEF OpensIn
    <3>3. OpensIn(W) \ {<<t.agent, t.port>>} \subseteq OpensIn(W \ {t})
      BY ZenonT(60) DEF OpensIn
    <3> QED BY <3>2, <3>3
  <2> QED BY <1>1, <2>1, <2>2, <2>3 DEF TasksAreRight
<1> QED BY <1>2, <1>3

\* A task that learns its sandbox stays the same task.
LEMMA ATaskGoesOn ==
  ASSUME NEW W, NEW n, NEW h, NEW o, NEW c, TasksAreRight(W, n, h, o, c), NEW t \in W,
         NEW u, TaskIsRight(u, n), u.no = t.no, u.kind = t.kind, u.agent = t.agent, u.port = t.port,
         u.forwards = t.forwards
  PROVE TasksAreRight((W \ {t}) \cup {u}, n, h, o, c)
<1>1. n \in Nat /\ \A v \in W : TaskIsRight(v, n) /\ ~OpensAgain(v, h)
  BY DEF TasksAreRight
<1>2. \A v, w \in W : v.no = w.no => v = w
  BY DEF TasksAreRight
<1>3. \A v, w \in W : v.kind = "open" /\ IsOpen(w, v.agent, v.port) => v = w
  BY DEF TasksAreRight
<1>4. ~OpensAgain(u, h)
  BY <1>1 DEF OpensAgain, Serves
<1>5. \A v \in (W \ {t}) \cup {u} : TaskIsRight(v, n) /\ ~OpensAgain(v, h)
  BY <1>1, <1>4
<1>6. \A v, w \in (W \ {t}) \cup {u} : v.no = w.no => v = w
  BY <1>2
<1>7. \A v, w \in (W \ {t}) \cup {u} : v.kind = "open" /\ IsOpen(w, v.agent, v.port) => v = w
  <2> SUFFICES ASSUME NEW v \in (W \ {t}) \cup {u}, NEW w \in (W \ {t}) \cup {u},
                      v.kind = "open", IsOpen(w, v.agent, v.port)
               PROVE v = w
    OBVIOUS
  <2>1. CASE v = u /\ w = u
    BY <2>1
  <2>2. CASE v = u /\ w \in W \ {t}
    <3>1. t.kind = "open" /\ IsOpen(w, t.agent, t.port)
      BY <2>2
    <3> QED BY <3>1, <2>2, <1>3
  <2>3. CASE v \in W \ {t} /\ w = u
    <3>1. IsOpen(t, v.agent, v.port)
      BY <2>3 DEF IsOpen
    <3> QED BY <3>1, <2>3, <1>3
  <2>4. CASE v \in W \ {t} /\ w \in W \ {t}
    BY <2>4, <1>3
  <2> QED BY <2>1, <2>2, <2>3, <2>4
<1>8. OpensIn((W \ {t}) \cup {u}) = OpensIn(W)
  <2>1. OpensIn((W \ {t}) \cup {u}) \subseteq OpensIn(W)
    <3> SUFFICES ASSUME NEW v \in (W \ {t}) \cup {u}, v.kind = "open" PROVE <<v.agent, v.port>> \in OpensIn(W)
      BY ZenonT(60) DEF OpensIn
    <3>1. CASE v = u
      <4>1. t \in {x \in W : x.kind = "open"} /\ <<v.agent, v.port>> = <<t.agent, t.port>>
        BY <3>1
      <4> QED BY <4>1 DEF OpensIn
    <3>2. CASE v \in W
      BY <3>2 DEF OpensIn
    <3> QED BY <3>1, <3>2
  <2>2. OpensIn(W) \subseteq OpensIn((W \ {t}) \cup {u})
    <3> SUFFICES ASSUME NEW v \in W, v.kind = "open" PROVE <<v.agent, v.port>> \in OpensIn((W \ {t}) \cup {u})
      BY ZenonT(60) DEF OpensIn
    <3>1. CASE v = t
      <4>1. u \in {x \in (W \ {t}) \cup {u} : x.kind = "open"} /\ <<v.agent, v.port>> = <<u.agent, u.port>>
        BY <3>1
      <4> QED BY <4>1 DEF OpensIn
    <3>2. CASE v # t
      BY <3>2 DEF OpensIn
    <3> QED BY <3>1, <3>2
  <2> QED BY <2>1, <2>2
<1>9. IsFiniteSet(CreatesIn((W \ {t}) \cup {u})) /\ Cardinality(CreatesIn((W \ {t}) \cup {u})) = Cardinality(CreatesIn(W))
  <2>1. CASE t.kind # "create"
    <3>1. CreatesIn((W \ {t}) \cup {u}) = CreatesIn(W)
      BY <2>1 DEF CreatesIn
    <3> QED BY <3>1 DEF TasksAreRight
  <2>2. CASE t.kind = "create"
    <3>1. /\ CreatesIn((W \ {t}) \cup {u}) = (CreatesIn(W) \ {t}) \cup {u} /\ t \in CreatesIn(W)
          /\ u \notin CreatesIn(W) \ {t}
      BY <2>2, <1>2 DEF CreatesIn
    <3>2. IsFiniteSet(CreatesIn(W)) /\ Cardinality(CreatesIn(W)) \in Nat
      BY FS_CardinalityType DEF TasksAreRight
    <3>3. /\ IsFiniteSet(CreatesIn(W) \ {t})
          /\ Cardinality(CreatesIn(W) \ {t}) = Cardinality(CreatesIn(W)) - 1
      BY <3>1, <3>2, FS_RemoveElement
    <3>4. /\ IsFiniteSet((CreatesIn(W) \ {t}) \cup {u})
          /\ Cardinality((CreatesIn(W) \ {t}) \cup {u}) = Cardinality(CreatesIn(W) \ {t}) + 1
      BY <3>1, <3>3, FS_AddElement
    <3>5. Cardinality((CreatesIn(W) \ {t}) \cup {u}) = Cardinality(CreatesIn(W))
      BY <3>2, <3>3, <3>4
    <3> QED BY <3>1, <3>4, <3>5
  <2> QED BY <2>1, <2>2
<1> QED BY <1>1, <1>5, <1>6, <1>7, <1>8, <1>9 DEF TasksAreRight

\* What is held may go, and what comes is of a desktop that no task opens.
LEMMA HeldMayChange ==
  ASSUME NEW W, NEW n, NEW h, NEW o, NEW c, TasksAreRight(W, n, h, o, c), NEW k,
         \A f \in k : f \in h \/ f.over \/ f.by = "create" \/ \A t \in W : ~IsOpen(t, f.agent, f.port)
  PROVE TasksAreRight(W, n, k, o, c)
<1>1. \A t \in W : ~OpensAgain(t, k)
  <2> SUFFICES ASSUME NEW t \in W, t.kind = "open", t.forwards, NEW f \in k, Serves(f, t) PROVE FALSE
    BY DEF OpensAgain
  <2>1. ~OpensAgain(t, h)
    BY DEF TasksAreRight
  <2>2. f \in h
    BY DEF Serves, IsOpen
  <2> QED BY <2>1, <2>2 DEF OpensAgain
<1> QED BY <1>1 DEF TasksAreRight

\* What the channel holds besides snapshots: an answer more at its end, or one less at its head.
LEMMA AnswersAppended ==
  ASSUME NEW q \in Seq(FwdMessages), NEW m \in FwdMessages
  PROVE /\ ~IsAnswer(m) => AnswersIn(Append(q, m)) = AnswersIn(q)
        /\ IsAnswer(m) => AnswersIn(Append(q, m)) = AnswersIn(q) \cup {m.task}
<1>1. /\ DOMAIN Append(q, m) = 1..(Len(q) + 1) /\ DOMAIN q = 1..Len(q) /\ Len(q) \in Nat
      /\ \A i \in 1..Len(q) : Append(q, m)[i] = q[i]
      /\ Append(q, m)[Len(q) + 1] = m
  OBVIOUS
<1>2. 1..(Len(q) + 1) = 1..Len(q) \cup {Len(q) + 1}
  BY <1>1
<1>3. AnswersIn(q) \subseteq AnswersIn(Append(q, m))
  <2> SUFFICES ASSUME NEW i \in 1..Len(q), IsAnswer(q[i]) PROVE q[i].task \in AnswersIn(Append(q, m))
    BY <1>1, ZenonT(60) DEF AnswersIn
  <2>1. i \in {j \in DOMAIN Append(q, m) : IsAnswer(Append(q, m)[j])} /\ Append(q, m)[i].task = q[i].task
    BY <1>1, <1>2
  <2> QED BY <2>1, ZenonT(60) DEF AnswersIn
<1>4. \A x \in AnswersIn(Append(q, m)) : x \in AnswersIn(q) \/ (IsAnswer(m) /\ x = m.task)
  <2> SUFFICES ASSUME NEW i \in 1..(Len(q) + 1), IsAnswer(Append(q, m)[i])
               PROVE Append(q, m)[i].task \in AnswersIn(q) \/ (IsAnswer(m) /\ Append(q, m)[i].task = m.task)
    BY <1>1, ZenonT(60) DEF AnswersIn
  <2>1. CASE i \in 1..Len(q)
    <3>1. Append(q, m)[i] = q[i] /\ i \in {j \in DOMAIN q : IsAnswer(q[j])}
      BY <1>1, <2>1
    <3> QED BY <3>1, ZenonT(60) DEF AnswersIn
  <2>2. CASE i = Len(q) + 1
    BY <1>1, <2>2
  <2> QED BY <1>2, <2>1, <2>2
<1>5. IsAnswer(m) => m.task \in AnswersIn(Append(q, m))
  <2> SUFFICES ASSUME IsAnswer(m) PROVE m.task \in AnswersIn(Append(q, m))
    OBVIOUS
  <2>1. Len(q) + 1 \in {j \in DOMAIN Append(q, m) : IsAnswer(Append(q, m)[j])} /\ Append(q, m)[Len(q) + 1].task = m.task
    BY <1>1
  <2> QED BY <2>1, ZenonT(60) DEF AnswersIn
<1> QED BY <1>3, <1>4, <1>5, ZenonT(60)

LEMMA AnswersTaken ==
  ASSUME NEW q \in Seq(FwdMessages), q # <<>>,
         \A i, j \in DOMAIN q : IsAnswer(q[i]) /\ IsAnswer(q[j]) /\ q[i].task.no = q[j].task.no => i = j
  PROVE /\ Head(q) = q[1] /\ 1 \in DOMAIN q /\ q[1] \in FwdMessages
        /\ ~IsAnswer(Head(q)) => AnswersIn(Tail(q)) = AnswersIn(q)
        /\ IsAnswer(Head(q)) => /\ AnswersIn(Tail(q)) = AnswersIn(q) \ {Head(q).task}
                                /\ Head(q).task \in AnswersIn(q)
<1>1. /\ Tail(q) \in Seq(FwdMessages) /\ Len(q) \in Nat /\ Len(q) > 0 /\ Len(Tail(q)) = Len(q) - 1
      /\ DOMAIN q = 1..Len(q) /\ DOMAIN Tail(q) = 1..(Len(q) - 1)
      /\ \A i \in 1..(Len(q) - 1) : Tail(q)[i] = q[i + 1]
      /\ Head(q) = q[1] /\ 1 \in DOMAIN q /\ q[1] \in FwdMessages
  OBVIOUS
<1>2. AnswersIn(Tail(q)) \subseteq AnswersIn(q)
  <2> SUFFICES ASSUME NEW i \in 1..(Len(q) - 1), IsAnswer(Tail(q)[i]) PROVE Tail(q)[i].task \in AnswersIn(q)
    BY <1>1, ZenonT(60) DEF AnswersIn
  <2>1. i + 1 \in 1..Len(q) /\ Tail(q)[i] = q[i + 1]
    BY <1>1
  <2>2. i + 1 \in {j \in DOMAIN q : IsAnswer(q[j])}
    BY <1>1, <2>1
  <2> QED BY <2>1, <2>2, ZenonT(60) DEF AnswersIn
<1>3. ASSUME NEW i \in 1..Len(q), IsAnswer(q[i]) PROVE i = 1 \/ q[i].task \in AnswersIn(Tail(q))
  <2> SUFFICES ASSUME i # 1 PROVE q[i].task \in AnswersIn(Tail(q))
    OBVIOUS
  <2>1. i - 1 \in 1..(Len(q) - 1) /\ (i - 1) + 1 = i
    BY <1>1
  <2>2. Tail(q)[i - 1] = q[i]
    BY <1>1, <2>1
  <2>3. i - 1 \in {j \in DOMAIN Tail(q) : IsAnswer(Tail(q)[j])}
    BY <1>1, <1>3, <2>1, <2>2
  <2> QED BY <2>2, <2>3, ZenonT(60) DEF AnswersIn
<1>4. \A x \in AnswersIn(q) : x \in AnswersIn(Tail(q)) \/ (IsAnswer(Head(q)) /\ x = Head(q).task)
  <2> SUFFICES ASSUME NEW i \in 1..Len(q), IsAnswer(q[i])
               PROVE q[i].task \in AnswersIn(Tail(q)) \/ (IsAnswer(Head(q)) /\ q[i].task = Head(q).task)
    BY <1>1, ZenonT(60) DEF AnswersIn
  <2> QED BY <1>1, <1>3
<1>5. ASSUME IsAnswer(Head(q)) PROVE Head(q).task \notin AnswersIn(Tail(q)) /\ Head(q).task \in AnswersIn(q)
  <2>1. Head(q).task \in AnswersIn(q)
    <3>1. 1 \in {j \in DOMAIN q : IsAnswer(q[j])}
      BY <1>1, <1>5
    <3> QED BY <1>1, <3>1, ZenonT(60) DEF AnswersIn
  <2>2. ASSUME NEW i \in 1..(Len(q) - 1), IsAnswer(Tail(q)[i]), Tail(q)[i].task = Head(q).task PROVE FALSE
    <3>1. i + 1 \in DOMAIN q /\ Tail(q)[i] = q[i + 1] /\ i + 1 # 1
      BY <1>1
    <3> QED BY <1>1, <1>5, <2>2, <3>1
  <2>3. Head(q).task \notin AnswersIn(Tail(q))
    BY <1>1, <2>2, ZenonT(60) DEF AnswersIn
  <2> QED BY <2>1, <2>3
<1>6. ~IsAnswer(Head(q)) => AnswersIn(Tail(q)) = AnswersIn(q)
  BY <1>2, <1>4, ZenonT(60)
<1>7. IsAnswer(Head(q)) => /\ AnswersIn(Tail(q)) = AnswersIn(q) \ {Head(q).task}
                           /\ Head(q).task \in AnswersIn(q)
  BY <1>2, <1>4, <1>5, ZenonT(60)
<1> QED BY <1>1, <1>6, <1>7

\* What the loop takes from the channel leaves one answer of each task that is left.
LEMMA OneIsTaken ==
  ASSUME ForwardsAreTyped, WaitsInv, inbox # <<>>, inbox' = Tail(inbox), tasks' = tasks
  PROVE /\ Head(inbox) = inbox[1] /\ inbox[1] \in FwdMessages /\ 1 \in DOMAIN inbox
        /\ ~IsAnswer(Head(inbox)) => Waits' = Waits
        /\ IsAnswer(Head(inbox)) => /\ Head(inbox).task \in Waits /\ Waits' = Waits \ {Head(inbox).task}
                                    /\ Head(inbox).task \in FwdTasks
        /\ AnswersAreOnce' /\ inbox' \in Seq(FwdMessages) /\ Len(inbox') <= MaxInbox
<1> DEFINE q == inbox
<1>1. /\ inbox \in Seq(FwdMessages) /\ Len(inbox) <= MaxInbox /\ inbox # <<>>
      /\ \A i, j \in DOMAIN q : IsAnswer(q[i]) /\ IsAnswer(q[j]) /\ q[i].task.no = q[j].task.no => i = j
      /\ \A t \in tasks, i \in DOMAIN inbox : IsAnswer(inbox[i]) => inbox[i].task.no # t.no
  BY DEF ForwardsAreTyped, WaitsInv, AnswersAreOnce
<1>2. /\ Head(inbox) = inbox[1] /\ 1 \in DOMAIN inbox /\ inbox[1] \in FwdMessages
      /\ ~IsAnswer(Head(inbox)) => AnswersIn(Tail(inbox)) = AnswersIn(inbox)
      /\ IsAnswer(Head(inbox)) => /\ AnswersIn(Tail(inbox)) = AnswersIn(inbox) \ {Head(inbox).task}
                                  /\ Head(inbox).task \in AnswersIn(inbox)
  BY <1>1, AnswersTaken
<1>3. IsAnswer(Head(inbox)) => Head(inbox).task \notin tasks
  BY <1>1, <1>2
<1>4. ~IsAnswer(Head(inbox)) => Waits' = Waits
  BY <1>2 DEF Waits
<1>5. IsAnswer(Head(inbox)) => Head(inbox).task \in Waits /\ Waits' = Waits \ {Head(inbox).task}
  BY <1>2, <1>3 DEF Waits
<1>6. IsAnswer(Head(inbox)) => Head(inbox).task \in FwdTasks
  BY <1>2 DEF IsAnswer, FwdMessages
<1>7. /\ Tail(inbox) \in Seq(FwdMessages) /\ Len(Tail(inbox)) = Len(inbox) - 1 /\ Len(inbox) \in Nat
      /\ DOMAIN Tail(inbox) = 1..(Len(inbox) - 1) /\ DOMAIN inbox = 1..Len(inbox)
      /\ \A i \in 1..(Len(inbox) - 1) : Tail(inbox)[i] = inbox[i + 1]
  BY <1>1
<1>8. \A i \in DOMAIN Tail(inbox) : i \in Nat /\ i + 1 \in DOMAIN inbox /\ Tail(inbox)[i] = inbox[i + 1]
  BY <1>7
<1>9. AnswersAreOnce'
  <2>1. \A t \in tasks, i \in DOMAIN Tail(inbox) : IsAnswer(Tail(inbox)[i]) => Tail(inbox)[i].task.no # t.no
    BY <1>1, <1>8
  <2>2. ASSUME NEW i \in DOMAIN Tail(inbox), NEW j \in DOMAIN Tail(inbox), IsAnswer(Tail(inbox)[i]),
               IsAnswer(Tail(inbox)[j]), Tail(inbox)[i].task.no = Tail(inbox)[j].task.no
        PROVE i = j
    <3>1. i + 1 = j + 1
      BY <1>1, <1>8, <2>2
    <3> QED BY <1>8, <3>1
  <2>3. \A i \in DOMAIN Tail(inbox) :
            IsAnswer(Tail(inbox)[i]) =>
                /\ Tail(inbox)[i].task.kind = Tail(inbox)[i].kind
                /\ Tail(inbox)[i].ok /\ Tail(inbox)[i].task.forwards => Tail(inbox)[i].task.box # Unassigned
    BY <1>8 DEF WaitsInv, AnswersAreOnce
  <2>4. tasks' = tasks /\ inbox' = Tail(inbox)
    OBVIOUS
  <2> QED BY <2>1, <2>2, <2>3, <2>4, ZenonT(60) DEF AnswersAreOnce
<1> QED BY <1>1, <1>2, <1>4, <1>5, <1>6, <1>7, <1>9, ForwardBounds

\* What is sent to it comes last.
LEMMA OneIsSent ==
  ASSUME ForwardsAreTyped, WaitsInv, NEW m \in FwdMessages, Len(inbox) < MaxInbox, inbox' = Append(inbox, m),
         tasks' \subseteq tasks,
         IsAnswer(m) => /\ m.task \in tasks /\ tasks' = tasks \ {m.task} /\ m.task.kind = m.kind
                        /\ m.ok /\ m.task.forwards => m.task.box # Unassigned,
         ~IsAnswer(m) => tasks' = tasks
  PROVE Waits' = Waits /\ AnswersAreOnce' /\ inbox' \in Seq(FwdMessages) /\ Len(inbox') <= MaxInbox
<1>1. /\ inbox \in Seq(FwdMessages) /\ Len(inbox) \in Nat /\ DOMAIN inbox = 1..Len(inbox)
      /\ inbox' \in Seq(FwdMessages) /\ Len(inbox') = Len(inbox) + 1 /\ DOMAIN inbox' = 1..(Len(inbox) + 1)
      /\ \A i \in DOMAIN inbox : inbox'[i] = inbox[i]
      /\ inbox'[Len(inbox) + 1] = m
  BY DEF ForwardsAreTyped
<1>2. \A i \in DOMAIN inbox' : i \in DOMAIN inbox \/ i = Len(inbox) + 1
  BY <1>1
<1>3. Waits' = Waits
  <2>1. /\ ~IsAnswer(m) => AnswersIn(inbox') = AnswersIn(inbox)
        /\ IsAnswer(m) => AnswersIn(inbox') = AnswersIn(inbox) \cup {m.task}
    BY <1>1, AnswersAppended
  <2> QED BY <2>1 DEF Waits
<1>4. /\ \A t \in tasks, i \in DOMAIN inbox : IsAnswer(inbox[i]) => inbox[i].task.no # t.no
      /\ \A i, j \in DOMAIN inbox :
            IsAnswer(inbox[i]) /\ IsAnswer(inbox[j]) /\ inbox[i].task.no = inbox[j].task.no => i = j
      /\ \A t, u \in tasks : t.no = u.no => t = u
  BY DEF WaitsInv, AnswersAreOnce, TasksAreRight, Waits
<1>5. ASSUME NEW t \in tasks', NEW i \in DOMAIN inbox', IsAnswer(inbox'[i]) PROVE inbox'[i].task.no # t.no
  <2>1. CASE i \in DOMAIN inbox
    BY <1>1, <1>4, <1>5, <2>1
  <2>2. CASE i = Len(inbox) + 1
    BY <1>1, <1>4, <1>5, <2>2
  <2> QED BY <1>2, <2>1, <2>2
<1>6. ASSUME NEW i \in DOMAIN inbox', NEW j \in DOMAIN inbox', IsAnswer(inbox'[i]), IsAnswer(inbox'[j]),
             inbox'[i].task.no = inbox'[j].task.no
      PROVE i = j
  <2>1. CASE i \in DOMAIN inbox /\ j \in DOMAIN inbox
    BY <1>1, <1>4, <1>6, <2>1
  <2>2. CASE i \in DOMAIN inbox /\ j = Len(inbox) + 1
    BY <1>1, <1>4, <1>6, <2>2
  <2>3. CASE i = Len(inbox) + 1 /\ j \in DOMAIN inbox
    BY <1>1, <1>4, <1>6, <2>3
  <2> QED BY <1>2, <2>1, <2>2, <2>3
<1>7. ASSUME NEW i \in DOMAIN inbox', IsAnswer(inbox'[i])
      PROVE /\ inbox'[i].task.kind = inbox'[i].kind
            /\ inbox'[i].ok /\ inbox'[i].task.forwards => inbox'[i].task.box # Unassigned
  <2>1. CASE i \in DOMAIN inbox
    BY <1>1, <1>7, <2>1 DEF WaitsInv, AnswersAreOnce
  <2>2. CASE i = Len(inbox) + 1
    BY <1>1, <1>7, <2>2
  <2> QED BY <1>2, <2>1, <2>2
<1>8. AnswersAreOnce'
  BY <1>5, <1>6, <1>7, ZenonT(60) DEF AnswersAreOnce
<1>9. Len(inbox') <= MaxInbox
  BY <1>1, ForwardBounds
<1> QED BY <1>1, <1>3, <1>8, <1>9

\* A step that leaves the tasks and what the UI holds leaves what is said of them.
LEMMA HeldStays ==
  ASSUME HeldInv, held' \subseteq held, nextId' = nextId,
         \A f \in held' : DialsCurrentSandbox(listedBox', f)
  PROVE HeldInv'
<1>1. /\ held' \in SUBSET FwdHeld /\ nextId' \in Nat \ {0}
      /\ \A f \in held' : f.id \in 1..(nextId' - 1) /\ f.box \in 1..MaxBoxes
      /\ \A f, g \in held' : f.id = g.id => f = g
  BY DEF HeldInv
<1>2. HeldReachesItsAgent'
  BY DEF HeldReachesItsAgent, DialsCurrentSandbox
<1>3. OneDesktopPerViewer'
  BY DEF HeldInv, OneDesktopPerViewer
<1> QED BY <1>1, <1>2, <1>3 DEF HeldInv

LEMMA WaitsStay ==
  ASSUME WaitsInv, UNCHANGED <<tasks, inbox, started, opening, creating>>,
         \A f \in held' : f \in held \/ f.over
  PROVE WaitsInv'
<1>1. /\ tasks' = tasks /\ inbox' = inbox /\ started' = started /\ opening' = opening /\ creating' = creating
  OBVIOUS
<1>2. Waits' = Waits
  BY <1>1 DEF Waits
<1>3. TasksAreRight(Waits, started, held', opening, creating)
  BY HeldMayChange DEF WaitsInv
<1>4. TasksAreRight(Waits', started', held', opening', creating')
  BY <1>1, <1>2, <1>3
<1>5. AnswersAreOnce'
  BY <1>1 DEF WaitsInv, AnswersAreOnce
<1> QED BY <1>4, <1>5 DEF WaitsInv

\* A forward that is kept is of the agent as it is listed, and has the next id.
LEMMA AForwardMore ==
  ASSUME HeldInv, NEW t \in FwdTasks, t.box \in 1..MaxBoxes, push(Held(t)), listedBox' = listedBox,
         \A f \in held : t.kind = "open" => ~Serves(f, t)
  PROVE HeldInv' /\ held' \subseteq held \cup {Held(t)}
<1>1. CASE ~DialsCurrentSandbox(listedBox, Held(t))
  <2>1. held' = held /\ nextId' = nextId
    BY <1>1 DEF push
  <2>2. \A f \in held' : DialsCurrentSandbox(listedBox', f)
    BY <2>1 DEF HeldInv, HeldReachesItsAgent
  <2> QED BY <2>1, <2>2, HeldStays
<1>2. CASE DialsCurrentSandbox(listedBox, Held(t))
  <2>1. held' = held \cup {Held(t)} /\ nextId' = nextId + 1
    BY <1>2 DEF push
  <2>2. nextId \in Nat \ {0} /\ held \in SUBSET FwdHeld
    BY DEF HeldInv
  <2>3. /\ Held(t) \in FwdHeld /\ Held(t).id = nextId /\ Held(t).box = t.box /\ Held(t).by = t.kind
        /\ Held(t).agent = t.agent /\ Held(t).port = t.port
    BY <2>2 DEF Held, FwdHeld, FwdTasks
  <2>4. \A f \in held : f.id \in 1..(nextId - 1) /\ f.box \in 1..MaxBoxes
    BY DEF HeldInv
  <2>5. nextId' \in Nat \ {0} /\ held' \in SUBSET FwdHeld
    BY <2>1, <2>2, <2>3
  <2>6. \A f \in held' : f.id \in 1..(nextId' - 1) /\ f.box \in 1..MaxBoxes
    <3> SUFFICES ASSUME NEW f \in held' PROVE f.id \in 1..(nextId' - 1) /\ f.box \in 1..MaxBoxes
      OBVIOUS
    <3>1. CASE f \in held
      BY <3>1, <2>1, <2>2, <2>4
    <3>2. CASE f = Held(t)
      BY <3>2, <2>1, <2>2, <2>3
    <3> QED BY <2>1, <3>1, <3>2
  <2>7. \A f \in held : f.id # Held(t).id
    BY <2>2, <2>3, <2>4
  <2>8. \A f, g \in held' : f.id = g.id => f = g
    BY <2>1, <2>7 DEF HeldInv
  <2>9. HeldReachesItsAgent'
    BY <1>2, <2>1 DEF HeldInv, HeldReachesItsAgent, DialsCurrentSandbox
  <2>10. OneDesktopPerViewer'
    <3> SUFFICES ASSUME NEW f \in held', NEW g \in held', f.by = "open", g.by = "open", ~f.over, ~g.over,
                        f.agent = g.agent, f.port = g.port
                 PROVE f = g
      BY DEF OneDesktopPerViewer
    <3>1. CASE f \in held /\ g \in held
      BY <3>1 DEF HeldInv, OneDesktopPerViewer
    <3>2. CASE f = Held(t) /\ g \in held
      <4>1. t.kind = "open" /\ Serves(g, t)
        BY <3>2, <2>3 DEF Serves
      <4> QED BY <4>1, <3>2
    <3>3. CASE f \in held /\ g = Held(t)
      <4>1. t.kind = "open" /\ Serves(f, t)
        BY <3>3, <2>3 DEF Serves
      <4> QED BY <4>1, <3>3
    <3>4. CASE f = Held(t) /\ g = Held(t)
      BY <3>4
    <3> QED BY <2>1, <3>1, <3>2, <3>3, <3>4
  <2> QED BY <2>1, <2>5, <2>6, <2>8, <2>9, <2>10 DEF HeldInv
<1> QED BY <1>1, <1>2

\* The agents change, a reply is sent, and one is taken: what no longer reaches its agent is stopped.
LEMMA AgentsChange ==
  ASSUME HeldForwardsInv, NEW a \in FwdAgents, AgentChanges(a)
  PROVE HeldForwardsInv'
<1>1. /\ listedBox' = listedBox /\ held' = held /\ nextId' = nextId /\ tasks' = tasks /\ started' = started
      /\ inbox' = inbox /\ opening' = opening /\ creating' = creating /\ dialog' = dialog /\ left' = left
  BY DEF AgentChanges
<1>2. box \in FwdSnapshots /\ boxes \in 0..MaxBoxes
  BY DEF HeldForwardsInv, ForwardsAreTyped
<1>3. box' \in FwdSnapshots /\ boxes' \in 0..MaxBoxes
  <2>1. CASE box' = [box EXCEPT ![a] = Unassigned] /\ boxes' = boxes
    BY <2>1, <1>2, ForwardBounds DEF FwdSnapshots, Unassigned, NoAgent
  <2>2. CASE boxes < MaxBoxes /\ box' = [box EXCEPT ![a] = boxes + 1] /\ boxes' = boxes + 1
    <3>1. boxes + 1 \in 0..MaxBoxes /\ boxes + 1 \in NoAgent..MaxBoxes
      BY <2>2, <1>2, ForwardBounds DEF NoAgent
    <3> QED BY <2>2, <3>1, <1>2 DEF FwdSnapshots
  <2>3. CASE box' = [box EXCEPT ![a] = NoAgent] /\ boxes' = boxes
    BY <2>3, <1>2, ForwardBounds DEF FwdSnapshots, NoAgent
  <2> QED BY <2>1, <2>2, <2>3 DEF AgentChanges
<1>4. ForwardsAreTyped'
  BY <1>1, <1>3, ZenonT(60) DEF HeldForwardsInv, ForwardsAreTyped
<1>5. HeldInv'
  BY <1>1, HeldStays DEF HeldForwardsInv, HeldInv, HeldReachesItsAgent
<1>6. WaitsInv'
  BY <1>1, WaitsStay DEF HeldForwardsInv
<1> QED BY <1>4, <1>5, <1>6 DEF HeldForwardsInv

LEMMA RepliesAreSent ==
  ASSUME HeldForwardsInv, WatchReplies
  PROVE HeldForwardsInv'
<1> DEFINE m == [kind |-> "resources", agents |-> box]
<1>1. /\ box' = box /\ boxes' = boxes /\ listedBox' = listedBox /\ held' = held /\ nextId' = nextId /\ tasks' = tasks
      /\ started' = started /\ inbox' = Append(inbox, m) /\ Len(inbox) < MaxInbox
      /\ opening' = opening /\ creating' = creating /\ dialog' = dialog /\ left' = left
  BY DEF WatchReplies
<1>2. m \in FwdMessages /\ ~IsAnswer(m)
  BY DEF HeldForwardsInv, ForwardsAreTyped, FwdMessages, IsAnswer
<1>3. ForwardsAreTyped /\ WaitsInv /\ HeldInv
  BY DEF HeldForwardsInv
<1> HIDE DEF m
<1>4. Waits' = Waits /\ AnswersAreOnce' /\ inbox' \in Seq(FwdMessages) /\ Len(inbox') <= MaxInbox
  BY <1>1, <1>2, <1>3, OneIsSent
<1>5. ForwardsAreTyped'
  BY <1>1, <1>3, <1>4, ZenonT(60) DEF ForwardsAreTyped
<1>6. HeldInv'
  BY <1>1, <1>3, HeldStays DEF HeldInv, HeldReachesItsAgent
<1>7. TasksAreRight(Waits', started', held', opening', creating')
  BY <1>1, <1>3, <1>4 DEF WaitsInv
<1> QED BY <1>4, <1>5, <1>6, <1>7 DEF HeldForwardsInv, WaitsInv

LEMMA RepliesAreTaken ==
  ASSUME HeldForwardsInv, TakesResources
  PROVE HeldForwardsInv'
<1>1. /\ box' = box /\ boxes' = boxes /\ nextId' = nextId /\ tasks' = tasks
      /\ started' = started /\ inbox' = Tail(inbox) /\ inbox # <<>> /\ Head(inbox).kind = "resources"
      /\ listedBox' = Head(inbox).agents /\ held' = {f \in held : DialsCurrentSandbox(Head(inbox).agents, f)}
      /\ opening' = opening /\ creating' = creating /\ dialog' = dialog /\ left' = left
  BY DEF TakesResources, Receives, prune
<1>2. ForwardsAreTyped /\ WaitsInv /\ HeldInv
  BY DEF HeldForwardsInv
<1>3. ~IsAnswer(Head(inbox))
  BY <1>1 DEF IsAnswer
<1>4. /\ Head(inbox) \in FwdMessages /\ Waits' = Waits /\ AnswersAreOnce'
      /\ inbox' \in Seq(FwdMessages) /\ Len(inbox') <= MaxInbox
  BY <1>1, <1>2, <1>3, OneIsTaken
<1>5. listedBox' \in FwdSnapshots
  BY <1>1, <1>4 DEF FwdMessages, FwdKinds
<1>6. ForwardsAreTyped'
  BY <1>1, <1>2, <1>4, <1>5, ZenonT(60) DEF ForwardsAreTyped
<1>7. HeldInv'
  BY <1>1, <1>2, HeldStays
<1>8. TasksAreRight(Waits', started', held', opening', creating')
  <2>1. TasksAreRight(Waits, started, held', opening, creating)
    BY <1>1, <1>2, HeldMayChange DEF WaitsInv
  <2> QED BY <2>1, <1>1, <1>4
<1> QED BY <1>4, <1>6, <1>7, <1>8 DEF HeldForwardsInv, WaitsInv

\* A task learns the sandbox its agent got, answers, and is answered for.
LEMMA TasksReach ==
  ASSUME HeldForwardsInv, NEW t \in tasks, TaskReaches(t)
  PROVE HeldForwardsInv'
<1> DEFINE u == [t EXCEPT !.box = box[t.agent]]
<1>1. /\ box' = box /\ boxes' = boxes /\ listedBox' = listedBox /\ held' = held /\ nextId' = nextId
      /\ tasks' = (tasks \ {t}) \cup {u} /\ started' = started /\ inbox' = inbox
      /\ opening' = opening /\ creating' = creating /\ dialog' = dialog /\ left' = left
      /\ box[t.agent] > Unassigned
  BY DEF TaskReaches
<1>2. ForwardsAreTyped /\ WaitsInv /\ HeldInv
  BY DEF HeldForwardsInv
<1>3. t \in Waits /\ t \in FwdTasks /\ TaskIsRight(t, started)
  BY <1>2 DEF WaitsInv, TasksAreRight, Waits, TaskIsRight
<1>4. box[t.agent] \in 0..MaxBoxes
  BY <1>1, <1>2, <1>3, ForwardBounds DEF ForwardsAreTyped, FwdSnapshots, FwdTasks, Unassigned, NoAgent
<1>5. /\ u \in FwdTasks /\ u.no = t.no /\ u.kind = t.kind /\ u.agent = t.agent /\ u.port = t.port
      /\ u.forwards = t.forwards /\ u.box = box[t.agent]
  <2>1. box[t.agent] \in Nat
    BY <1>4
  <2> QED BY <1>3, <2>1 DEF FwdTasks
<1>6. TaskIsRight(u, started)
  BY <1>3, <1>4, <1>5 DEF TaskIsRight
<1> HIDE DEF u
<1>7. t \notin AnswersIn(inbox)
  BY <1>2, ZenonT(60) DEF WaitsInv, AnswersAreOnce, AnswersIn
<1>8. Waits' = (Waits \ {t}) \cup {u}
  BY <1>1, <1>7 DEF Waits
<1>9. TasksAreRight(Waits', started', held', opening', creating')
  <2>1. TasksAreRight(Waits, started, held, opening, creating)
    BY <1>2 DEF WaitsInv
  <2>2. TasksAreRight((Waits \ {t}) \cup {u}, started, held, opening, creating)
    BY <2>1, <1>3, <1>5, <1>6, ATaskGoesOn
  <2> QED BY <2>2, <1>1, <1>8
<1>10. AnswersAreOnce'
  <2>1. \A v \in tasks', i \in DOMAIN inbox : IsAnswer(inbox[i]) => inbox[i].task.no # v.no
    BY <1>1, <1>2, <1>5 DEF WaitsInv, AnswersAreOnce
  <2> QED BY <2>1, <1>1, <1>2, ZenonT(60) DEF WaitsInv, AnswersAreOnce
<1>11. ForwardsAreTyped'
  <2>1. tasks' \in SUBSET FwdTasks
    BY <1>1, <1>2, <1>5 DEF ForwardsAreTyped
  <2> QED BY <1>1, <1>2, <2>1, ZenonT(60) DEF ForwardsAreTyped
<1>12. HeldInv'
  BY <1>1, <1>2, HeldStays DEF HeldInv, HeldReachesItsAgent
<1> QED BY <1>9, <1>10, <1>11, <1>12 DEF HeldForwardsInv, WaitsInv

LEMMA TasksAnswer ==
  ASSUME HeldForwardsInv, NEW t \in tasks, NEW ok \in BOOLEAN, TaskAnswers(t, ok)
  PROVE HeldForwardsInv'
<1> DEFINE m == [kind |-> t.kind, task |-> t, ok |-> ok]
<1>1. /\ box' = box /\ boxes' = boxes /\ listedBox' = listedBox /\ held' = held /\ nextId' = nextId
      /\ tasks' = tasks \ {t} /\ started' = started /\ inbox' = Append(inbox, m) /\ Len(inbox) < MaxInbox
      /\ opening' = opening /\ creating' = creating /\ dialog' = dialog /\ left' = left
  BY DEF TaskAnswers
<1>2. ForwardsAreTyped /\ WaitsInv /\ HeldInv
  BY DEF HeldForwardsInv
<1>3. t \in FwdTasks
  BY <1>2 DEF ForwardsAreTyped
<1>4. m \in FwdMessages /\ m.task = t /\ m.kind = t.kind /\ m.ok = ok
  BY <1>3 DEF FwdMessages, FwdTasks
<1>5. IsAnswer(m)
  BY <1>3, <1>4 DEF IsAnswer, FwdTasks, FwdKinds
<1>6. m.ok /\ m.task.forwards => m.task.box # Unassigned
  BY <1>4 DEF TaskAnswers
<1> HIDE DEF m
<1>7. Waits' = Waits /\ AnswersAreOnce' /\ inbox' \in Seq(FwdMessages) /\ Len(inbox') <= MaxInbox
  BY <1>1, <1>2, <1>4, <1>5, <1>6, OneIsSent
<1>8. ForwardsAreTyped'
  <2>1. tasks' \in SUBSET FwdTasks
    BY <1>1, <1>2 DEF ForwardsAreTyped
  <2> QED BY <1>1, <1>2, <1>7, <2>1, ZenonT(60) DEF ForwardsAreTyped
<1>9. HeldInv'
  BY <1>1, <1>2, HeldStays DEF HeldInv, HeldReachesItsAgent
<1>10. TasksAreRight(Waits', started', held', opening', creating')
  BY <1>1, <1>2, <1>7 DEF WaitsInv
<1> QED BY <1>7, <1>8, <1>9, <1>10 DEF HeldForwardsInv, WaitsInv

\* The answer the loop takes: its task is no longer waited for, and if it started a forward, knows its sandbox.
LEMMA AnAnswerIsRight ==
  ASSUME HeldForwardsInv, inbox # <<>>, inbox' = Tail(inbox), tasks' = tasks, Head(inbox).kind \in FwdKinds
  PROVE LET t == Head(inbox).task IN
        /\ t \in Waits /\ Waits' = Waits \ {t} /\ t \in FwdTasks /\ t.kind = Head(inbox).kind
        /\ Head(inbox).ok /\ t.forwards => t.box \in 1..MaxBoxes
        /\ t.kind = "create" => t.forwards
        /\ ~OpensAgain(t, held)
        /\ AnswersAreOnce' /\ inbox' \in Seq(FwdMessages) /\ Len(inbox') <= MaxInbox
<1> DEFINE t == Head(inbox).task
<1>1. ForwardsAreTyped /\ WaitsInv
  BY DEF HeldForwardsInv
<1>2. IsAnswer(Head(inbox))
  BY DEF IsAnswer, FwdKinds
<1>3. /\ Head(inbox) = inbox[1] /\ 1 \in DOMAIN inbox
      /\ t \in Waits /\ Waits' = Waits \ {t} /\ t \in FwdTasks
      /\ AnswersAreOnce' /\ inbox' \in Seq(FwdMessages) /\ Len(inbox') <= MaxInbox
  BY <1>1, <1>2, OneIsTaken
<1>4. t.kind = Head(inbox).kind /\ (Head(inbox).ok /\ t.forwards => t.box # Unassigned)
  BY <1>1, <1>2, <1>3 DEF WaitsInv, AnswersAreOnce
<1>5. TaskIsRight(t, started) /\ ~OpensAgain(t, held)
  BY <1>1, <1>3 DEF WaitsInv, TasksAreRight
<1>6. t.box \in 0..MaxBoxes /\ (t.kind = "create" => t.forwards)
  BY <1>5 DEF TaskIsRight
<1>7. Head(inbox).ok /\ t.forwards => t.box \in 1..MaxBoxes
  <2> SUFFICES ASSUME t.box # Unassigned PROVE t.box \in 1..MaxBoxes
    BY <1>4
  <2> QED BY <1>6, ForwardBounds DEF Unassigned
<1> QED BY <1>3, <1>4, <1>5, <1>6, <1>7

LEMMA ForwardsAreCreated ==
  ASSUME HeldForwardsInv, forward_created
  PROVE HeldForwardsInv'
<1> DEFINE t == Head(inbox).task
<1>1. /\ box' = box /\ boxes' = boxes /\ listedBox' = listedBox /\ tasks' = tasks
      /\ started' = started /\ inbox' = Tail(inbox) /\ inbox # <<>> /\ Head(inbox).kind = "create"
      /\ opening' = opening /\ creating' = creating - 1 /\ left' = left
  BY DEF forward_created, Receives
<1>2. ForwardsAreTyped /\ WaitsInv /\ HeldInv
  BY DEF HeldForwardsInv
<1>3. Head(inbox).kind \in FwdKinds
  BY <1>1 DEF FwdKinds
<1>4. /\ t \in Waits /\ Waits' = Waits \ {t} /\ t \in FwdTasks /\ t.kind = "create"
      /\ Head(inbox).ok => t.box \in 1..MaxBoxes
      /\ AnswersAreOnce' /\ inbox' \in Seq(FwdMessages) /\ Len(inbox') <= MaxInbox
  BY <1>1, <1>3, AnAnswerIsRight
<1>5. TasksAreRight(Waits \ {t}, started, held, opening, creating - 1)
  BY <1>2, <1>4, ATaskLess DEF WaitsInv
<1>6. HeldInv' /\ held' \subseteq held \cup {Held(t)} /\ (dialog' = dialog \/ dialog' = ForwardForm(t.agent, t.replace))
  <2>1. CASE Head(inbox).ok
    <3>1. push(Held(t)) /\ dialog' = dialog
      BY <2>1 DEF forward_created
    <3> HIDE DEF t
    <3> QED BY <2>1, <3>1, <1>1, <1>2, <1>4, AForwardMore
  <2>2. CASE ~Head(inbox).ok
    <3>1. held' = held /\ nextId' = nextId /\ dialog' = ForwardForm(t.agent, t.replace)
      BY <2>2 DEF forward_created
    <3> QED BY <3>1, <1>1, <1>2, HeldStays DEF HeldInv, HeldReachesItsAgent
  <2> QED BY <2>1, <2>2
<1> HIDE DEF t
<1>7. Held(t).by = "create"
  BY <1>4 DEF Held
<1>8. TasksAreRight(Waits', started', held', opening', creating')
  <2>1. TasksAreRight(Waits \ {t}, started, held', opening, creating - 1)
    BY <1>5, <1>6, <1>7, HeldMayChange
  <2> QED BY <2>1, <1>1, <1>4
<1>9. ForwardsAreTyped'
  <2>1. dialog'.kind = "forward" => dialog'.agent \in FwdAgents /\ dialog'.replace \in Int
    BY <1>2, <1>4, <1>6 DEF ForwardForm, ForwardsAreTyped, FwdTasks
  <2> QED BY <1>1, <1>2, <1>4, <2>1, ZenonT(60) DEF ForwardsAreTyped
<1> QED BY <1>4, <1>6, <1>8, <1>9 DEF HeldForwardsInv, WaitsInv

LEMMA OpensAreFinished ==
  ASSUME HeldForwardsInv, open_finished
  PROVE HeldForwardsInv'
<1> DEFINE t == Head(inbox).task
<1>1. /\ box' = box /\ boxes' = boxes /\ listedBox' = listedBox /\ tasks' = tasks
      /\ started' = started /\ inbox' = Tail(inbox) /\ inbox # <<>> /\ Head(inbox).kind = "open"
      /\ opening' = opening \ {<<t.agent, t.port>>} /\ creating' = creating /\ left' = left /\ dialog' = dialog
  BY DEF open_finished, Receives
<1>2. ForwardsAreTyped /\ WaitsInv /\ HeldInv
  BY DEF HeldForwardsInv
<1>3. Head(inbox).kind \in FwdKinds
  BY <1>1 DEF FwdKinds
<1>4. /\ t \in Waits /\ Waits' = Waits \ {t} /\ t \in FwdTasks /\ t.kind = "open" /\ ~OpensAgain(t, held)
      /\ Head(inbox).ok /\ t.forwards => t.box \in 1..MaxBoxes
      /\ AnswersAreOnce' /\ inbox' \in Seq(FwdMessages) /\ Len(inbox') <= MaxInbox
  BY <1>1, <1>3, AnAnswerIsRight
<1>5. /\ TasksAreRight(Waits \ {t}, started, held, opening \ {<<t.agent, t.port>>}, creating)
      /\ \A u \in Waits \ {t} : ~IsOpen(u, t.agent, t.port)
  BY <1>2, <1>4, ATaskLess DEF WaitsInv
<1>6. HeldInv' /\ held' \subseteq held \cup {Held(t)}
  <2>1. CASE Head(inbox).ok /\ t.forwards
    <3>1. push(Held(t))
      BY <2>1 DEF open_finished
    <3>2. \A f \in held : ~Serves(f, t)
      BY <1>4, <2>1 DEF OpensAgain
    <3> HIDE DEF t
    <3> QED BY <2>1, <3>1, <3>2, <1>1, <1>2, <1>4, AForwardMore
  <2>2. CASE ~(Head(inbox).ok /\ t.forwards)
    <3>1. held' = held /\ nextId' = nextId
      BY <2>2 DEF open_finished
    <3> QED BY <3>1, <1>1, <1>2, HeldStays DEF HeldInv, HeldReachesItsAgent
  <2> QED BY <2>1, <2>2
<1> HIDE DEF t
<1>7. Held(t).agent = t.agent /\ Held(t).port = t.port
  BY DEF Held
<1>8. TasksAreRight(Waits', started', held', opening', creating')
  <2>1. \A f \in held' : f \in held \/ \A u \in Waits \ {t} : ~IsOpen(u, f.agent, f.port)
    BY <1>5, <1>6, <1>7
  <2>2. TasksAreRight(Waits \ {t}, started, held', opening \ {<<t.agent, t.port>>}, creating)
    BY <1>5, <2>1, HeldMayChange
  <2> QED BY <2>2, <1>1, <1>4
<1>9. ForwardsAreTyped'
  BY <1>1, <1>2, <1>4, ZenonT(60) DEF ForwardsAreTyped
<1> QED BY <1>4, <1>6, <1>8, <1>9 DEF HeldForwardsInv, WaitsInv

\* A key starts a task of the next number.
LEMMA ATaskStarts ==
  ASSUME HeldForwardsInv, NEW kind \in FwdKinds, NEW a \in FwdAgents, NEW p \in Viewers, NEW r \in Int,
         NEW f \in BOOLEAN, Starts(kind, a, p, r, f), inbox' = inbox,
         held' \subseteq held, kind = "open" /\ f => ~ServesDesktop(a, p),
         \/ kind = "create" /\ f /\ opening' = opening /\ creating' = creating + 1
         \/ kind = "open" /\ <<a, p>> \notin opening /\ opening' = opening \cup {<<a, p>>} /\ creating' = creating
  PROVE WaitsInv' /\ tasks' \in SUBSET FwdTasks /\ started' \in 0..MaxTasks
<1> DEFINE t == [no |-> started + 1, kind |-> kind, agent |-> a, port |-> p, replace |-> r, forwards |-> f, box |-> Unassigned]
<1>1. started < MaxTasks /\ started' = started + 1 /\ tasks' = tasks \cup {t}
  BY DEF Starts
<1>2. ForwardsAreTyped /\ WaitsInv
  BY DEF HeldForwardsInv
<1>3. started \in Nat /\ started + 1 \in Nat /\ started' \in 0..MaxTasks
  BY <1>1, <1>2, ForwardBounds DEF ForwardsAreTyped
<1>4. /\ t \in FwdTasks /\ t.no = started + 1 /\ t.box = Unassigned /\ t.kind = kind /\ t.agent = a /\ t.port = p
      /\ t.forwards = f
  BY <1>3 DEF FwdTasks, Unassigned
<1> HIDE DEF t
<1>5. Waits' = Waits \cup {t}
  BY <1>1 DEF Waits
<1>6. TasksAreRight(Waits, started, held', opening, creating)
  BY <1>2, HeldMayChange DEF WaitsInv
<1>7. ~OpensAgain(t, held')
  BY <1>4, ZenonT(60) DEF OpensAgain, Serves, ServesDesktop
<1>8. TasksAreRight(Waits', started', held', opening', creating')
  <2>1. CASE kind = "create" /\ f /\ opening' = opening /\ creating' = creating + 1
    <3>1. TasksAreRight(Waits \cup {t}, started + 1, held', opening, creating + 1)
      BY <1>4, <1>6, <1>7, <2>1, ATaskMore
    <3> QED BY <3>1, <2>1, <1>1, <1>5
  <2>2. CASE kind = "open" /\ <<a, p>> \notin opening /\ opening' = opening \cup {<<a, p>>} /\ creating' = creating
    <3>1. TasksAreRight(Waits \cup {t}, started + 1, held', opening \cup {<<t.agent, t.port>>}, creating)
      BY <1>4, <1>6, <1>7, <2>2, ATaskMore
    <3> QED BY <3>1, <2>2, <1>1, <1>4, <1>5
  <2> QED BY <2>1, <2>2
<1>9. AnswersAreOnce'
  <2>1. ASSUME NEW i \in DOMAIN inbox, IsAnswer(inbox[i]) PROVE inbox[i].task.no # t.no
    <3>1. inbox[i].task \in Waits
      BY <2>1, ZenonT(60) DEF Waits, AnswersIn
    <3>2. inbox[i].task.no \in 1..started
      BY <1>2, <3>1 DEF WaitsInv, TasksAreRight, TaskIsRight
    <3> QED BY <1>3, <1>4, <3>2
  <2>2. \A u \in tasks', i \in DOMAIN inbox : IsAnswer(inbox[i]) => inbox[i].task.no # u.no
    BY <1>1, <1>2, <2>1 DEF WaitsInv, AnswersAreOnce
  <2> QED BY <2>2, <1>2, ZenonT(60) DEF WaitsInv, AnswersAreOnce
<1>10. tasks' \in SUBSET FwdTasks
  BY <1>1, <1>2, <1>4 DEF ForwardsAreTyped
<1> QED BY <1>3, <1>8, <1>9, <1>10 DEF WaitsInv

LEMMA KeysStartTasks ==
  ASSUME HeldForwardsInv,
         \/ \E port \in Viewers : CreatesForward(port)
         \/ \E a \in FwdAgents, viewer \in Viewers : OpensDesktop(a, viewer)
  PROVE HeldForwardsInv'
<1>1. ForwardsAreTyped /\ HeldInv
  BY DEF HeldForwardsInv
<1>2. ASSUME NEW port \in Viewers, CreatesForward(port) PROVE HeldForwardsInv'
  <2>1. /\ box' = box /\ boxes' = boxes /\ listedBox' = listedBox /\ nextId' = nextId /\ inbox' = inbox
        /\ opening' = opening /\ creating' = creating + 1 /\ left' = left /\ dialog' = NoDialog
        /\ Starts("create", dialog.agent, port, dialog.replace, TRUE)
        /\ held' \subseteq held
    BY <1>2 DEF CreatesForward
  <2>2. dialog.agent \in FwdAgents /\ dialog.replace \in Int
    BY <1>1, <1>2 DEF ForwardsAreTyped, CreatesForward
  <2>3. WaitsInv' /\ tasks' \in SUBSET FwdTasks /\ started' \in 0..MaxTasks
    BY <2>1, <2>2, ATaskStarts DEF FwdKinds
  <2>4. dialog'.kind # "forward"
    BY <2>1 DEF NoDialog
  <2>5. ForwardsAreTyped'
    BY <1>1, <2>1, <2>3, <2>4, ZenonT(60) DEF ForwardsAreTyped
  <2>6. HeldInv'
    BY <1>1, <2>1, HeldStays DEF HeldInv, HeldReachesItsAgent
  <2> QED BY <2>3, <2>5, <2>6 DEF HeldForwardsInv
<1>3. ASSUME NEW a \in FwdAgents, NEW viewer \in Viewers, OpensDesktop(a, viewer) PROVE HeldForwardsInv'
  <2>1. /\ box' = box /\ boxes' = boxes /\ listedBox' = listedBox /\ nextId' = nextId /\ inbox' = inbox
        /\ <<a, viewer>> \notin opening
        /\ opening' = opening \cup {<<a, viewer>>} /\ creating' = creating /\ left' = left /\ dialog' = dialog
        /\ Starts("open", a, viewer, NoForward, ~ServesDesktop(a, viewer))
        /\ held' = held
    BY <1>3 DEF OpensDesktop
  <2>2. WaitsInv' /\ tasks' \in SUBSET FwdTasks /\ started' \in 0..MaxTasks
    <3>1. PICK f \in BOOLEAN : f = (~ServesDesktop(a, viewer))
      OBVIOUS
    <3>2. f => ~ServesDesktop(a, viewer)
      BY <3>1
    <3>3. Starts("open", a, viewer, NoForward, f)
      BY <2>1, <3>1
    <3> QED BY <2>1, <3>2, <3>3, ATaskStarts DEF FwdKinds, NoForward
  <2>3. ForwardsAreTyped'
    BY <1>1, <2>1, <2>2, ZenonT(60) DEF ForwardsAreTyped
  <2>4. HeldInv'
    BY <1>1, <2>1, HeldStays DEF HeldInv, HeldReachesItsAgent
  <2> QED BY <2>2, <2>3, <2>4 DEF HeldForwardsInv
<1> QED BY <1>2, <1>3

\* A forward that ended serves no desktop, and one that is deleted is gone.
LEMMA ForwardsGo ==
  ASSUME HeldForwardsInv, NEW f \in held, ForwardEnds(f) \/ DeletesForward(f)
  PROVE HeldForwardsInv'
<1> DEFINE g == [f EXCEPT !.over = TRUE]
<1>1. /\ box' = box /\ boxes' = boxes /\ listedBox' = listedBox /\ nextId' = nextId /\ inbox' = inbox
      /\ tasks' = tasks /\ started' = started
      /\ opening' = opening /\ creating' = creating /\ left' = left /\ dialog' = dialog
      /\ held' = (held \ {f}) \cup {g} \/ held' = held \ {f}
  BY DEF ForwardEnds, DeletesForward
<1>2. ForwardsAreTyped /\ HeldInv /\ WaitsInv
  BY DEF HeldForwardsInv
<1>3. f \in FwdHeld
  BY <1>2 DEF HeldInv
<1>4. g \in FwdHeld /\ g.id = f.id /\ g.box = f.box /\ g.agent = f.agent /\ g.port = f.port /\ g.by = f.by
  BY <1>3 DEF FwdHeld
<1>5. g.over
  BY <1>3, ZenonT(60) DEF FwdHeld
<1> HIDE DEF g
<1>6. \A h \in held' : h \in held \ {f} \/ h = g
  BY <1>1
<1>7. ForwardsAreTyped'
  BY <1>1, <1>2, ZenonT(60) DEF ForwardsAreTyped
<1>8. WaitsInv'
  BY <1>1, <1>2, <1>5, <1>6, WaitsStay
<1>9. HeldInv'
  <2>1. /\ held' \in SUBSET FwdHeld /\ nextId' \in Nat \ {0}
        /\ \A h \in held' : h.id \in 1..(nextId' - 1) /\ h.box \in 1..MaxBoxes
    BY <1>1, <1>2, <1>4, <1>6 DEF HeldInv
  <2>2. \A h, k \in held' : h.id = k.id => h = k
    BY <1>2, <1>4, <1>6 DEF HeldInv
  <2>3. HeldReachesItsAgent'
    BY <1>1, <1>2, <1>4, <1>6 DEF HeldInv, HeldReachesItsAgent, DialsCurrentSandbox
  <2>4. OneDesktopPerViewer'
    BY <1>2, <1>5, <1>6 DEF HeldInv, OneDesktopPerViewer
  <2> QED BY <2>1, <2>2, <2>3, <2>4 DEF HeldInv
<1> QED BY <1>7, <1>8, <1>9 DEF HeldForwardsInv

LEMMA AgentsAreCreated ==
  ASSUME HeldForwardsInv, NEW a \in FwdAgents, CreatesAgent(a)
  PROVE HeldForwardsInv'
<1>1. /\ boxes' = boxes /\ nextId' = nextId /\ inbox' = inbox /\ tasks' = tasks /\ started' = started /\ held' = held
      /\ opening' = opening /\ creating' = creating /\ left' = left /\ dialog' = dialog
      /\ box' = [box EXCEPT ![a] = Unassigned] /\ listedBox' = [listedBox EXCEPT ![a] = Unassigned]
  BY DEF CreatesAgent
<1>2. ForwardsAreTyped /\ HeldInv /\ WaitsInv
  BY DEF HeldForwardsInv
<1>3. box' \in FwdSnapshots /\ listedBox' \in FwdSnapshots
  BY <1>1, <1>2, ForwardBounds DEF ForwardsAreTyped, FwdSnapshots, Unassigned, NoAgent
<1>4. ForwardsAreTyped'
  BY <1>1, <1>2, <1>3, ZenonT(60) DEF ForwardsAreTyped
<1>5. WaitsInv'
  BY <1>1, <1>2, WaitsStay
<1>6. \A f \in held' : DialsCurrentSandbox(listedBox', f)
  <2> SUFFICES ASSUME NEW f \in held PROVE listedBox'[f.agent] \in {Unassigned, f.box}
    BY <1>1 DEF DialsCurrentSandbox
  <2>1. listedBox[f.agent] \in {Unassigned, f.box} /\ f.agent \in FwdAgents
    BY <1>2 DEF HeldInv, HeldReachesItsAgent, DialsCurrentSandbox, FwdHeld
  <2> QED BY <2>1, <1>1, <1>2 DEF ForwardsAreTyped, FwdSnapshots
<1>7. HeldInv'
  BY <1>1, <1>2, <1>6, HeldStays
<1> QED BY <1>4, <1>5, <1>7 DEF HeldForwardsInv

\* Forms and leaving the UI move nothing else.
LEMMA DialogsMove ==
  ASSUME HeldForwardsInv, UNCHANGED <<box, boxes, listedBox, held, nextId, tasks, started, inbox, opening, creating>>,
         left' \in {"no", "asked", "unasked"},
         dialog'.kind = "forward" => dialog'.agent \in FwdAgents /\ dialog'.replace \in Int
  PROVE HeldForwardsInv'
<1>1. /\ box' = box /\ boxes' = boxes /\ nextId' = nextId /\ inbox' = inbox /\ tasks' = tasks /\ started' = started
      /\ held' = held /\ opening' = opening /\ creating' = creating /\ listedBox' = listedBox
  OBVIOUS
<1>2. ForwardsAreTyped /\ HeldInv /\ WaitsInv
  BY DEF HeldForwardsInv
<1>3. ForwardsAreTyped'
  BY <1>1, <1>2, ZenonT(60) DEF ForwardsAreTyped
<1>4. WaitsInv'
  BY <1>1, <1>2, WaitsStay
<1>5. HeldInv'
  BY <1>1, <1>2, HeldStays DEF HeldInv, HeldReachesItsAgent
<1> QED BY <1>3, <1>4, <1>5 DEF HeldForwardsInv

LEMMA HeldForwardsStay ==
  ASSUME HeldForwardsInv, FwdNext
  PROVE HeldForwardsInv'
<1>d. left \in {"no", "asked", "unasked"} /\ (dialog.kind = "forward" => dialog.agent \in FwdAgents /\ dialog.replace \in Int)
      /\ held \in SUBSET FwdHeld
  BY DEF HeldForwardsInv, ForwardsAreTyped, HeldInv
<1>1. ASSUME NEW a \in FwdAgents, AgentChanges(a) \/ CreatesAgent(a) PROVE HeldForwardsInv'
  BY <1>1, AgentsChange, AgentsAreCreated
<1>2. CASE WatchReplies \/ TakesResources \/ forward_created \/ open_finished
  BY <1>2, RepliesAreSent, RepliesAreTaken, ForwardsAreCreated, OpensAreFinished
<1>3. ASSUME NEW f \in held, ForwardEnds(f) \/ DeletesForward(f) PROVE HeldForwardsInv'
  BY <1>3, ForwardsGo
<1>4. ASSUME NEW t \in tasks, TaskReaches(t) \/ \E ok \in BOOLEAN : TaskAnswers(t, ok) PROVE HeldForwardsInv'
  BY <1>4, TasksReach, TasksAnswer
<1>5. ASSUME NEW a \in FwdAgents, NEW replace \in {NoForward} \cup {f.id : f \in held}, OpensForwardForm(a, replace)
      PROVE HeldForwardsInv'
  <2>1. replace \in Int
    BY <1>d DEF NoForward, FwdHeld
  <2>2. /\ UNCHANGED <<box, boxes, listedBox, held, nextId, tasks, started, inbox, opening, creating>>
        /\ left' = left /\ dialog' = [kind |-> "forward", agent |-> a, replace |-> replace]
    BY <1>5 DEF OpensForwardForm, ForwardForm
  <2>3. dialog'.agent \in FwdAgents /\ dialog'.replace \in Int
    BY <2>1, <2>2
  <2> QED BY <2>2, <2>3, <1>d, DialogsMove
<1>6. ASSUME NEW port \in Viewers, CreatesForward(port) PROVE HeldForwardsInv'
  BY <1>6, KeysStartTasks
<1>7. ASSUME NEW a \in FwdAgents, NEW viewer \in Viewers, OpensDesktop(a, viewer) PROVE HeldForwardsInv'
  BY <1>7, KeysStartTasks
<1>8. CASE DismissesForm \/ Quits \/ ConfirmsQuit
  <2>1. /\ UNCHANGED <<box, boxes, listedBox, held, nextId, tasks, started, inbox, opening, creating>>
        /\ left' \in {left, "asked", "unasked"}
        /\ dialog' = dialog \/ dialog' = NoDialog \/ dialog' = [kind |-> "quit"]
    BY <1>8 DEF DismissesForm, Quits, ConfirmsQuit
  <2>2. dialog' = dialog \/ dialog'.kind # "forward"
    BY <2>1 DEF NoDialog
  <2>3. left' \in {"no", "asked", "unasked"}
    BY <2>1, <1>d
  <2> QED BY <2>1, <2>2, <2>3, <1>d, DialogsMove
<1> QED BY <1>1, <1>2, <1>3, <1>4, <1>5, <1>6, <1>7, <1>8 DEF FwdNext

\* What is held reaches its agent, a desktop is forwarded once and what the UI waits for is under way,
\* for any agents, viewers, sandboxes and tasks (tui/mod.rs, tui/open.rs).
THEOREM ForwardsStaySound == FwdSpec => []ForwardsAreSound
<1>1. FwdInit => HeldForwardsInv
  <2> SUFFICES ASSUME FwdInit PROVE HeldForwardsInv
    OBVIOUS
  <2>1. /\ box \in FwdSnapshots /\ boxes = 0 /\ listedBox \in FwdSnapshots /\ started = 0
        /\ tasks = {} /\ inbox = <<>> /\ held = {} /\ nextId = 1 /\ opening = {} /\ creating = 0
        /\ dialog = NoDialog /\ left = "no"
    BY ForwardBounds DEF FwdInit, FwdSnapshots, NoAgent, Unassigned
  <2>2. Waits = {} /\ AnswersIn(inbox) = {}
    BY <2>1 DEF Waits, AnswersIn
  <2>3. TasksAreRight({}, 0, {}, {}, 0)
    <3>1. CreatesIn({}) = {} /\ OpensIn({}) = {}
      BY DEF CreatesIn, OpensIn
    <3> QED BY <3>1, FS_EmptySet DEF TasksAreRight
  <2>4. WaitsInv
    BY <2>1, <2>2, <2>3 DEF WaitsInv, AnswersAreOnce
  <2>5. ForwardsAreTyped
    BY <2>1, ForwardBounds DEF ForwardsAreTyped, NoDialog
  <2>6. HeldInv
    BY <2>1 DEF HeldInv, HeldReachesItsAgent, OneDesktopPerViewer
  <2> QED BY <2>4, <2>5, <2>6 DEF HeldForwardsInv
<1>2. HeldForwardsInv /\ [FwdNext]_fwdVars => HeldForwardsInv'
  <2> SUFFICES ASSUME HeldForwardsInv, [FwdNext]_fwdVars PROVE HeldForwardsInv'
    OBVIOUS
  <2>1. CASE FwdNext
    BY <2>1, HeldForwardsStay
  <2>2. CASE UNCHANGED fwdVars
    <3>1. UNCHANGED <<box, boxes, listedBox, held, nextId, tasks, started, inbox, opening, creating>>
          /\ left' = left /\ dialog' = dialog
      BY <2>2 DEF fwdVars
    <3>2. left' \in {"no", "asked", "unasked"} /\ (dialog'.kind = "forward" => dialog'.agent \in FwdAgents /\ dialog'.replace \in Int)
      BY <3>1 DEF HeldForwardsInv, ForwardsAreTyped
    <3> QED BY <3>1, <3>2, DialogsMove
  <2> QED BY <2>1, <2>2
<1>3. HeldForwardsInv => ForwardsAreSound
  <2> SUFFICES ASSUME HeldForwardsInv PROVE ForwardsAreSound
    OBVIOUS
  <2>1. ForwardsAreTyped /\ HeldInv /\ WaitsInv
    BY DEF HeldForwardsInv
  <2>2. FwdTypeOK
    <3>1. creating \in Nat /\ creating <= started /\ started \in 0..MaxTasks
      BY <2>1, FS_CardinalityType DEF WaitsInv, TasksAreRight, ForwardsAreTyped
    <3>2. creating \in 0..MaxTasks
      BY <3>1, ForwardBounds
    <3> QED BY <2>1, <3>2, ZenonT(60) DEF FwdTypeOK, ForwardsAreTyped, HeldInv, FwdSnapshots
  <2>3. WaitsFor("create") = CreatesIn(Waits)
    BY ZenonT(60) DEF WaitsFor, CreatesIn, Waits, AnswersIn, IsAnswer
  <2>4. WaitsFor("open") = {u \in Waits : u.kind = "open"}
    BY ZenonT(60) DEF WaitsFor, Waits, AnswersIn, IsAnswer
  <2>5. WaitsAreUnderWay
    BY <2>1, <2>3, <2>4 DEF WaitsAreUnderWay, WaitsInv, TasksAreRight, OpensIn
  <2> QED BY <2>1, <2>2, <2>5 DEF ForwardsAreSound, HeldInv
<1> QED BY <1>1, <1>2, <1>3, PTL DEF FwdSpec

-----------------------------------------------------------------------------
(* Commands in several terminals (CommandLine) *)

\* What tells of no agent, list, code or viewer, and what does.
SaidAnytime == {"incompatible", "startup failed", "startup took too long", "no answer", "not resolved", "failed",
                "is stopped", "deleted", "described", "timed out", "no agent is running", "declined",
                "some did not stop", "ssh", "session ready", "interrupted", "started again", "set again", "stopped again",
                "failure"}
SaidOfWhatIsSeen == {"stopped", "started", "restarted", "ready", "condition met", "every agent is stopped", "success",
                     "every port forward has stopped", "no viewer"}
CmdWords == {"nothing"} \cup SaidAnytime \cup SaidOfWhatIsSeen

RunStates == {"Running", "Stopped"}
CmdLine == CommandLines \cup {NoCommand.line}
CmdRecords ==
    [step : CommandSteps, said : CmdWords, line : CmdLine, agent : CmdAgents \cup {l.on : l \in CmdLine},
     listed : SUBSET CmdAgents, left : SUBSET CmdAgents, recorded : SUBSET CmdAgents, failed : SUBSET CmdAgents,
     shown : SUBSET (RunStates \X BOOLEAN), fresh : BOOLEAN, late : BOOLEAN, code : Int, port : BOOLEAN]
CmdAgentState == [exists : BOOLEAN, run : RunStates, done : BOOLEAN]
CmdAgentStates == [CmdAgents -> CmdAgentState]

\* What an agent that has converged is seen to be by the command that waits for it.
IsSeen(a, s, A) == A[a].exists /\ A[a].done => <<a, A[a].run>> \in s
Rendering(A, a) == IF A[a].exists THEN {<<A[a].run, A[a].done>>} ELSE {}

\* A command k that has seen s may say `what`.
MaySay(k, what, s) ==
    /\ what = "stopped" => <<k.agent, "Stopped">> \in s
    /\ what \in {"started", "restarted", "ready", "condition met"} => <<k.agent, "Running">> \in s
    /\ what = "every agent is stopped" => \A b \in k.listed : <<b, "Stopped">> \in s
    /\ what = "success" => k.code = 0
    /\ what = "every port forward has stopped" => k.left = {}
    /\ what = "no viewer" => k.agent \notin DesktopImages

\* A command k that has seen s may be at step x while the agents are A.
Asking == {"asks", "converging", "targets", "streams", "holds", "connects", "polls"}
WaitedFor == {"stop", "kill", "start", "restart", "apply", "wait"}
InTheSandbox == {"exec", "ssh", "forward", "vnc", "create"}
MayBeAt(k, x, s, A) ==
    /\ x \in {"health", "starting"} => k.line \in CommandLines /\ k.agent = k.line.on
    /\ x \in Asking => k.agent \in CmdAgents
    /\ x = "converging" => k.line.op \in WaitedFor /\ IsSeen(k.agent, s, A)
    /\ x = "targets" => k.line.op \in InTheSandbox
    /\ x \in {"records", "waits"} => \A b \in k.recorded : IsSeen(b, s, A)
    /\ x \notin {"records", "waits", "shell"} => k.recorded = {}
    /\ x = "confirms" => k.left = k.listed
    /\ x = "records" => k.listed \subseteq k.left \cup k.recorded \cup k.failed
    /\ x = "waits" => /\ k.left \subseteq k.recorded
                      /\ \A b \in k.listed : b \in k.left \/ b \in k.failed \/ <<b, "Stopped">> \in s
    /\ x \notin {"connects", "polls", "shell"} => ~k.fresh

IsTruthful(k, s, A) ==
    /\ k \in CmdRecords
    /\ k.step # "shell" => k.said = "nothing"
    /\ MaySay(k, k.said, s)
    /\ MayBeAt(k, k.step, s, A)
    /\ k.fresh => k.shown = Rendering(A, k.agent)

CommandsInv ==
    /\ agents \in CmdAgentStates
    /\ command \in [Terminals -> CmdRecords]
    /\ seen \in [Terminals -> SUBSET (CmdAgents \X RunStates)]
    /\ \A t \in Terminals : IsTruthful(command[t], seen[t], agents)

DaemonsInv ==
    /\ agentd \in [serves : BOOLEAN, build : {"ours", "other"}]
    /\ lockedBy \in Terminals \cup {"nobody", "outside"}
    /\ agentd.serves => lockedBy # "nobody"
    /\ spawn \in [Terminals -> {"none", "alive", "exited"}]
    /\ \A t \in Terminals : lockedBy = t => spawn[t] = "alive"

CliInv == CommandsInv /\ DaemonsInv

\* What a command may say or be at does not depend on its step, its words or what it showed.
LEMMA ItSays ==
  ASSUME NEW k, NEW s, NEW A, IsTruthful(k, s, A), NEW what \in CmdWords, MaySay(k, what, s)
  PROVE IsTruthful([k EXCEPT !.step = "shell", !.said = what], s, A)
<1>1. PICK r : r = [k EXCEPT !.step = "shell", !.said = what]
  OBVIOUS
<1>2. k \in CmdRecords
  BY DEF IsTruthful
<1>3. /\ r \in CmdRecords /\ r.step = "shell" /\ r.said = what /\ r.line = k.line /\ r.agent = k.agent
      /\ r.listed = k.listed /\ r.left = k.left /\ r.recorded = k.recorded /\ r.failed = k.failed
      /\ r.shown = k.shown /\ r.code = k.code
  BY <1>1, <1>2 DEF CmdRecords, CommandSteps
<1>4. r.fresh = k.fresh
  BY <1>1, <1>2, ZenonT(60) DEF CmdRecords
<1>5. MaySay(r, what, s)
  BY <1>3 DEF MaySay
<1>6. MayBeAt(r, "shell", s, A)
  BY DEF MayBeAt, Asking
<1>7. r.fresh => r.shown = Rendering(A, r.agent)
  BY <1>3, <1>4 DEF IsTruthful
<1>8. IsTruthful(r, s, A)
  BY <1>3, <1>5, <1>6, <1>7, ZenonT(60) DEF IsTruthful
<1> QED BY <1>1, <1>8

LEMMA ItGoes ==
  ASSUME NEW k, NEW s, NEW A, IsTruthful(k, s, A), k.step # "shell",
         NEW x \in CommandSteps \ {"shell"}, MayBeAt(k, x, s, A)
  PROVE IsTruthful([k EXCEPT !.step = x], s, A)
<1>1. PICK r : r = [k EXCEPT !.step = x]
  OBVIOUS
<1>2. k \in CmdRecords /\ k.said = "nothing"
  BY DEF IsTruthful
<1>3. /\ r \in CmdRecords /\ r.step = x /\ r.said = k.said /\ r.line = k.line /\ r.agent = k.agent
      /\ r.listed = k.listed /\ r.left = k.left /\ r.recorded = k.recorded /\ r.failed = k.failed
      /\ r.shown = k.shown /\ r.code = k.code
  BY <1>1, <1>2 DEF CmdRecords
<1>4. r.fresh = k.fresh
  BY <1>1, <1>2, ZenonT(60) DEF CmdRecords
<1>5. MaySay(r, "nothing", s)
  BY DEF MaySay
<1>6. MayBeAt(r, x, s, A)
  BY <1>3, <1>4, ZenonT(60) DEF MayBeAt
<1>7. r.fresh => r.shown = Rendering(A, r.agent)
  BY <1>3, <1>4 DEF IsTruthful
<1>8. IsTruthful(r, s, A)
  BY <1>2, <1>3, <1>5, <1>6, <1>7, ZenonT(60) DEF IsTruthful
<1> QED BY <1>1, <1>8

\* A command that is told its view is old is as truthful as before.
LEMMA ItIsOld ==
  ASSUME NEW k, NEW s, NEW A, IsTruthful(k, s, A)
  PROVE IsTruthful([k EXCEPT !.fresh = FALSE], s, A) /\ [k EXCEPT !.fresh = FALSE].fresh = FALSE
<1>1. PICK r : r = [k EXCEPT !.fresh = FALSE]
  OBVIOUS
<1>2. k \in CmdRecords
  BY DEF IsTruthful
<1>3. /\ r.step = k.step /\ r.said = k.said /\ r.line = k.line /\ r.agent = k.agent
      /\ r.listed = k.listed /\ r.left = k.left /\ r.recorded = k.recorded /\ r.failed = k.failed
      /\ r.shown = k.shown /\ r.code = k.code
  BY <1>1, <1>2 DEF CmdRecords
<1>4. r.fresh = FALSE /\ r \in CmdRecords
  BY <1>1, <1>2, ZenonT(60) DEF CmdRecords
<1>5. MaySay(r, r.said, s)
  BY <1>3 DEF IsTruthful, MaySay
<1>6. MayBeAt(r, r.step, s, A)
  <2>1. MayBeAt(k, k.step, s, A)
    BY DEF IsTruthful
  <2> QED BY <2>1, <1>3, <1>4, ZenonT(60) DEF MayBeAt
<1>7. IsTruthful(r, s, A)
  BY <1>3, <1>4, <1>5, <1>6, ZenonT(60) DEF IsTruthful
<1> QED BY <1>1, <1>4, <1>7

\* More is seen, and an agent that has converged had converged to the same before or is seen.
LEMMA AgentsMove ==
  ASSUME NEW k, NEW s, NEW A, NEW r, NEW B, IsTruthful(k, s, A), s \subseteq r, k.fresh => B = A,
         \A b \in CmdAgents :
            \/ B[b].exists /\ B[b].done => A[b].exists /\ A[b].done /\ B[b].run = A[b].run
            \/ k.step # "shell" /\ (b = k.agent \/ b \in k.recorded) => <<b, B[b].run>> \in r
  PROVE IsTruthful(k, r, B)
<1>1. /\ k \in CmdRecords /\ MaySay(k, k.said, s) /\ MayBeAt(k, k.step, s, A)
      /\ k.step # "shell" => k.said = "nothing" 
      /\ k.fresh => k.shown = Rendering(A, k.agent)
  BY DEF IsTruthful
<1>2. MaySay(k, k.said, r)
  BY <1>1 DEF MaySay
<1>3. ASSUME NEW b \in CmdAgents, k.step # "shell", b = k.agent \/ b \in k.recorded, IsSeen(b, s, A)
      PROVE IsSeen(b, r, B)
  BY <1>3, ZenonT(60) DEF IsSeen
<1>4. k.recorded \subseteq CmdAgents
  BY <1>1 DEF CmdRecords
<1>5. k.step = "converging" => IsSeen(k.agent, r, B)
  BY <1>1, <1>3 DEF MayBeAt, Asking
<1>6. k.step \in {"records", "waits"} => \A b \in k.recorded : IsSeen(b, r, B)
  BY <1>1, <1>3, <1>4 DEF MayBeAt
<1>7. \A b \in k.listed : <<b, "Stopped">> \in s => <<b, "Stopped">> \in r
  OBVIOUS
<1>8. MayBeAt(k, k.step, r, B)
  BY <1>1, <1>5, <1>6, <1>7, ZenonT(60) DEF MayBeAt
<1> QED BY <1>1, <1>2, <1>8, ZenonT(60) DEF IsTruthful

\* A terminal whose command moves while the agents stay as they are.
LEMMA ATerminalMoves ==
  ASSUME CommandsInv, NEW t \in Terminals, NEW k, command' = [command EXCEPT ![t] = k],
         IsTruthful(k, seen[t], agents), agents' = agents, seen' = seen
  PROVE CommandsInv'
<1>1. k \in CmdRecords
  BY DEF IsTruthful
<1>2. command \in [Terminals -> CmdRecords]
  BY DEF CommandsInv
<1>3. command' \in [Terminals -> CmdRecords]
  BY <1>1, <1>2
<1>4. \A u \in Terminals : command'[u] = IF u = t THEN k ELSE command[u]
  BY <1>2
<1>5. \A u \in Terminals : IsTruthful(command'[u], seen[u], agents)
  BY <1>4 DEF CommandsInv
<1> QED BY <1>3, <1>5, ZenonT(60) DEF CommandsInv

LEMMA ATerminalSays ==
  ASSUME CommandsInv, NEW t \in Terminals, NEW what \in CmdWords, CommandSays(t, what),
         MaySay(command[t], what, seen[t]), agents' = agents, seen' = seen
  PROVE CommandsInv'
<1>1. IsTruthful([command[t] EXCEPT !.step = "shell", !.said = what], seen[t], agents)
  BY ItSays DEF CommandsInv
<1>2. command' = [command EXCEPT ![t] = [command[t] EXCEPT !.step = "shell", !.said = what]]
  BY DEF CommandSays, CommandsInv
<1> QED BY <1>1, <1>2, ATerminalMoves

\* What tells of no agent, list, code or viewer may always be said.
LEMMA AnytimeIsTrue ==
  ASSUME NEW k, NEW s, NEW what \in SaidAnytime
  PROVE MaySay(k, what, s) /\ what \in CmdWords
<1>0. what \in CmdWords
  BY DEF CmdWords
<1>1. /\ what # "stopped" /\ what # "started" /\ what # "restarted" /\ what # "ready"
      /\ what # "condition met" /\ what # "every agent is stopped" /\ what # "success"
      /\ what # "every port forward has stopped" /\ what # "no viewer"
  BY DEF SaidAnytime
<1> QED BY <1>0, <1>1, ZenonT(60) DEF MaySay

LEMMA ATerminalSaysLittle ==
  ASSUME CommandsInv, NEW t \in Terminals, NEW what \in SaidAnytime, CommandSays(t, what),
         agents' = agents, seen' = seen
  PROVE CommandsInv'
BY AnytimeIsTrue, ATerminalSays

LEMMA ATerminalGoes ==
  ASSUME CommandsInv, NEW t \in Terminals, NEW x \in CommandSteps \ {"shell"}, Goes_(t, x),
         command[t].step # "shell", MayBeAt(command[t], x, seen[t], agents), agents' = agents, seen' = seen
  PROVE CommandsInv'
<1>1. IsTruthful([command[t] EXCEPT !.step = x], seen[t], agents)
  BY ItGoes DEF CommandsInv
<1>2. command' = [command EXCEPT ![t] = [command[t] EXCEPT !.step = x]]
  BY DEF Goes_, CommandsInv
<1> QED BY <1>1, <1>2, ATerminalMoves

\* What is told that it is old is otherwise the same.
LEMMA OldKeeps ==
  ASSUME NEW k \in CmdRecords, NEW r, r = [k EXCEPT !.fresh = FALSE]
  PROVE /\ r \in CmdRecords /\ r.step = k.step /\ r.said = k.said /\ r.line = k.line /\ r.agent = k.agent
        /\ r.listed = k.listed /\ r.left = k.left /\ r.recorded = k.recorded /\ r.failed = k.failed
        /\ r.shown = k.shown /\ r.code = k.code /\ r.fresh = FALSE
<1>1. /\ r.step = k.step /\ r.said = k.said /\ r.line = k.line /\ r.agent = k.agent
      /\ r.listed = k.listed /\ r.left = k.left /\ r.recorded = k.recorded /\ r.failed = k.failed
      /\ r.shown = k.shown /\ r.code = k.code
  BY DEF CmdRecords
<1>2. r.fresh = FALSE /\ r \in CmdRecords
  BY ZenonT(60) DEF CmdRecords
<1> QED BY <1>1, <1>2

\* The agents change, one terminal's command goes from k to another, and all are told.
LEMMA AllAreTold ==
  ASSUME CommandsInv, agents' \in CmdAgentStates, seen' \in [Terminals -> SUBSET (CmdAgents \X RunStates)],
         \A u \in Terminals : IsTruthful(command[u], seen'[u], agents'), command' = NoLongerFresh(command)
  PROVE CommandsInv'
<1>1. \A u \in Terminals : command'[u] = [command[u] EXCEPT !.fresh = FALSE]
  BY DEF NoLongerFresh
<1>2. ASSUME NEW u \in Terminals
      PROVE IsTruthful(command'[u], seen'[u], agents')
  <2>1. IsTruthful(command[u], seen'[u], agents')
    OBVIOUS
  <2>2. IsTruthful([command[u] EXCEPT !.fresh = FALSE], seen'[u], agents')
    BY <2>1, ItIsOld
  <2> QED BY <1>1, <2>2, ZenonT(60)
<1>3. command' \in [Terminals -> CmdRecords]
  <2>1. \A u \in Terminals : command'[u] \in CmdRecords
    BY <1>2 DEF IsTruthful
  <2>2. command' = [u \in Terminals |-> [command[u] EXCEPT !.fresh = FALSE]]
    BY DEF NoLongerFresh
  <2> QED BY <1>1, <2>1, <2>2
<1> QED BY <1>2, <1>3, ZenonT(60) DEF CommandsInv


\* A command about an agent is about one there may be.
LEMMA ItsAgent ==
  ASSUME CommandsInv, NEW t \in Terminals
  PROVE /\ command[t] \in CmdRecords /\ IsTruthful(command[t], seen[t], agents)
        /\ MayBeAt(command[t], command[t].step, seen[t], agents)
        /\ command[t].step \in Asking => command[t].agent \in CmdAgents
        /\ agents \in CmdAgentStates
<1>1. IsTruthful(command[t], seen[t], agents) /\ agents \in CmdAgentStates
  BY DEF CommandsInv
<1>2. command[t] \in CmdRecords /\ MayBeAt(command[t], command[t].step, seen[t], agents)
  BY <1>1 DEF IsTruthful
<1> QED BY <1>1, <1>2 DEF MayBeAt

LEMMA EntersLineTells ==
  ASSUME CommandsInv, NEW t \in Terminals, NEW entered \in CommandLines, EntersLine(t, entered)
  PROVE CommandsInv'
<1>1. PICK r : r = [NoCommand EXCEPT !.step = "health", !.line = entered, !.agent = entered.on]
  OBVIOUS
<1>2. command' = [command EXCEPT ![t] = r] /\ agents' = agents /\ seen' = seen
  BY <1>1 DEF EntersLine, Shell
<1>3. /\ r.step = "health" /\ r.said = "nothing" /\ r.line = entered /\ r.agent = entered.on
      /\ r.listed = {} /\ r.left = {} /\ r.recorded = {} /\ r.failed = {} /\ r.shown = {}
      /\ r.fresh = FALSE /\ r.late = FALSE /\ r.code = 0 /\ r.port = FALSE
  BY <1>1 DEF NoCommand
<1>4. entered \in CmdLine /\ entered.on \in {l.on : l \in CmdLine}
  BY DEF CmdLine
<1>5. r \in CmdRecords
  <2>1. r = [step |-> "health", said |-> "nothing", line |-> entered, agent |-> entered.on, listed |-> {}, left |-> {},
             recorded |-> {}, failed |-> {}, shown |-> {}, fresh |-> FALSE, late |-> FALSE, code |-> 0, port |-> FALSE]
    BY <1>1 DEF NoCommand
  <2>2. "health" \in CommandSteps /\ {} \in SUBSET CmdAgents /\ {} \in SUBSET (RunStates \X BOOLEAN)
        /\ entered.on \in CmdAgents \cup {l.on : l \in CmdLine} /\ 0 \in Int /\ "nothing" \in CmdWords
    BY <1>4 DEF CommandSteps, CmdWords
  <2> QED BY <2>1, <2>2, <1>4, ZenonT(60) DEF CmdRecords
<1>6. MaySay(r, "nothing", seen[t]) /\ MayBeAt(r, "health", seen[t], agents)
  BY <1>3 DEF MaySay, MayBeAt, Asking
<1>7. IsTruthful(r, seen[t], agents)
  BY <1>3, <1>5, <1>6, ZenonT(60) DEF IsTruthful
<1> QED BY <1>2, <1>7, ATerminalMoves

LEMMA GreetingTells ==
  ASSUME CommandsInv, NEW t \in Terminals, command[t].step \in {"health", "starting"}, Greets(t),
         agents' = agents, seen' = seen
  PROVE CommandsInv'
<1>1. CASE agentd.build = "ours"
  <2>1. Goes_(t, After(t))
    BY <1>1 DEF Greets
  <2>2. /\ command[t].line \in CommandLines /\ command[t].agent = command[t].line.on /\ command[t].recorded = {}
        /\ ~command[t].fresh
    BY ItsAgent DEF MayBeAt
  <2>3. After(t) \in {"resolves", "listing", "asks"}
    BY DEF After
  <2>4. After(t) = "asks" => command[t].agent \in CmdAgents
    BY <2>2, CommandLineConstants DEF After, Op
  <2>5. MayBeAt(command[t], After(t), seen[t], agents)
    BY <2>2, <2>3, <2>4, ZenonT(60) DEF MayBeAt, Asking
  <2>6. After(t) \in CommandSteps \ {"shell"} /\ command[t].step # "shell"
    BY <2>3 DEF CommandSteps
  <2> QED BY <2>1, <2>5, <2>6, ATerminalGoes
<1>2. CASE agentd.build # "ours"
  BY <1>2, ATerminalSaysLittle DEF Greets, SaidAnytime
<1> QED BY <1>1, <1>2

LEMMA EnsuresDaemonTells ==
  ASSUME CommandsInv, NEW t \in Terminals, EnsuresDaemon(t)
  PROVE CommandsInv'
<1>1. command[t].step = "health" /\ agents' = agents /\ seen' = seen
  BY DEF EnsuresDaemon, StepIs
<1>2. CASE agentd.serves
  BY <1>1, <1>2, GreetingTells DEF EnsuresDaemon
<1>3. CASE ~agentd.serves
  <2>1. Goes_(t, "starting")
    BY <1>3 DEF EnsuresDaemon
  <2>2. MayBeAt(command[t], "health", seen[t], agents)
    BY <1>1, ItsAgent
  <2>3. MayBeAt(command[t], "starting", seen[t], agents)
    BY <2>2 DEF MayBeAt, Asking
  <2> QED BY <1>1, <2>1, <2>3, ATerminalGoes DEF CommandSteps
<1> QED BY <1>2, <1>3

LEMMA AwaitsDaemonTells ==
  ASSUME CommandsInv, NEW t \in Terminals, AwaitsDaemon(t)
  PROVE CommandsInv'
<1>1. command[t].step = "starting" /\ agents' = agents /\ seen' = seen
  BY DEF AwaitsDaemon, StepIs, Shell
<1>2. CASE Greets(t)
  BY <1>1, <1>2, GreetingTells
<1>3. CASE CommandSays(t, "startup failed") \/ CommandSays(t, "startup took too long")
  BY <1>1, <1>3, ATerminalSaysLittle DEF SaidAnytime
<1> QED BY <1>2, <1>3 DEF AwaitsDaemon

\* The command is about the agent that was found.
LEMMA ItFinds ==
  ASSUME NEW k, NEW s, NEW A, IsTruthful(k, s, A), k.step = "resolves", NEW a \in CmdAgents,
         NEW r, r = [k EXCEPT !.step = "asks", !.agent = a]
  PROVE IsTruthful(r, s, A)
<1>1. k \in CmdRecords /\ k.said = "nothing" /\ k.recorded = {} /\ ~k.fresh
  BY DEF IsTruthful, MayBeAt
<1>2. /\ r \in CmdRecords /\ r.step = "asks" /\ r.said = k.said /\ r.agent = a /\ r.recorded = k.recorded
  BY <1>1 DEF CmdRecords, CommandSteps
<1>3. r.fresh = k.fresh
  BY <1>1, ZenonT(60) DEF CmdRecords
<1>4. MaySay(r, r.said, s)
  BY <1>1, <1>2 DEF MaySay
<1>5. MayBeAt(r, "asks", s, A)
  BY <1>1, <1>2, <1>3, ZenonT(60) DEF MayBeAt
<1> QED BY <1>1, <1>2, <1>3, <1>4, <1>5, ZenonT(60) DEF IsTruthful

LEMMA FoundIsThere ==
  ASSUME NEW variant, Cardinality(resolve_directory_variant(variant)) = 1
  PROVE (CHOOSE a \in resolve_directory_variant(variant) : TRUE) \in CmdAgents
<1> DEFINE found == resolve_directory_variant(variant)
<1>1. found # {}
  BY FS_EmptySet
<1>2. found \subseteq CmdAgents
  BY DEF resolve_directory_variant, Closest, Associated
<1> QED BY <1>1, <1>2

LEMMA ResolvesAgentTells ==
  ASSUME CommandsInv, NEW t \in Terminals, ResolvesAgent(t)
  PROVE CommandsInv'
<1> DEFINE found == resolve_directory_variant(command[t].line.variant)
<1>1. command[t].step = "resolves" /\ agents' = agents /\ seen' = seen
  BY DEF ResolvesAgent, StepIs, Shell
<1>2. CASE CommandSays(t, "no answer") \/ CommandSays(t, "not resolved")
  BY <1>1, <1>2, ATerminalSaysLittle DEF SaidAnytime
<1>3. CASE /\ Cardinality(found) = 1
           /\ command' = [command EXCEPT ![t].step = "asks", ![t].agent = CHOOSE a \in found : TRUE]
  <2>1. PICK a \in CmdAgents : a = CHOOSE b \in found : TRUE
    BY <1>3, FoundIsThere
  <2>2. PICK r : r = [command[t] EXCEPT !.step = "asks", !.agent = a]
    OBVIOUS
  <2> HIDE DEF found
  <2>3. command' = [command EXCEPT ![t].step = "asks", ![t].agent = a]
    BY <1>3, <2>1
  <2>4. command' = [command EXCEPT ![t] = r]
    BY <2>2, <2>3 DEF CommandsInv
  <2>5. IsTruthful(r, seen[t], agents)
    BY <1>1, <2>2, ItFinds, ItsAgent
  <2> QED BY <1>1, <2>4, <2>5, ATerminalMoves
<1> QED BY <1>2, <1>3, ZenonT(60) DEF ResolvesAgent

\* An agent x that has converged only if it had, to the same run state, as y.
NoFurther(x, y) == x.exists /\ x.done => y.exists /\ y.done /\ x.run = y.run

\* The same command at the same point of its work.
SameWork(o, k) ==
    /\ o.step = k.step /\ o.said = k.said /\ o.line = k.line /\ o.agent = k.agent
    /\ o.listed = k.listed /\ o.left = k.left /\ o.recorded = k.recorded /\ o.failed = k.failed

\* A command that is told its view is old.
Told(k) == [k EXCEPT !.fresh = FALSE]

\* The agents change to ones that have converged no further, and each command is told.
LEMMA ToldStayTruthful ==
  ASSUME NEW k, NEW s, NEW A, NEW B, IsTruthful(k, s, A), \A b \in CmdAgents : NoFurther(B[b], A[b])
  PROVE IsTruthful(Told(k), s, B) /\ SameWork(Told(k), k)
<1>1. k \in CmdRecords
  BY DEF IsTruthful
<1>2. PICK o : o = Told(k)
  OBVIOUS
<1>3. /\ o.step = k.step /\ o.said = k.said /\ o.line = k.line /\ o.agent = k.agent /\ o.fresh = FALSE
      /\ o.listed = k.listed /\ o.left = k.left /\ o.recorded = k.recorded /\ o.failed = k.failed
  BY <1>1, <1>2, OldKeeps DEF Told
<1>4. IsTruthful(o, s, A)
  BY <1>2, ItIsOld DEF Told
<1>5. IsTruthful(o, s, B)
  BY <1>3, <1>4, AgentsMove DEF NoFurther
<1> QED BY <1>2, <1>3, <1>5 DEF SameWork

\* The agents change, the commands are told, and one of them goes on.
LEMMA OneCommandGoesOn ==
  ASSUME NEW A, NEW B, NEW cmds, NEW t \in Terminals, NEW k, NEW s, B \in CmdAgentStates, agents' = B,
         seen \in [Terminals -> SUBSET (CmdAgents \X RunStates)], s \in SUBSET (CmdAgents \X RunStates),
         cmds \in [Terminals -> CmdRecords], \A u \in Terminals : IsTruthful(cmds[u], seen[u], B),
         IsTruthful(k, s, B), command' = [cmds EXCEPT ![t] = k], seen' = [seen EXCEPT ![t] = s]
  PROVE CommandsInv'
<1>1. k \in CmdRecords
  BY DEF IsTruthful
<1>2. command' \in [Terminals -> CmdRecords] /\ seen' \in [Terminals -> SUBSET (CmdAgents \X RunStates)]
  BY <1>1
<1>3. \A u \in Terminals : /\ command'[u] = IF u = t THEN k ELSE cmds[u]
                           /\ seen'[u] = IF u = t THEN s ELSE seen[u]
  BY ZenonT(60)
<1>4. \A u \in Terminals : IsTruthful(command'[u], seen'[u], agents')
  BY <1>3
<1> QED BY <1>2, <1>4, ZenonT(60) DEF CommandsInv

\* One agent becomes `new`, and the commands are told when that changed anything.
IsChange(a, new, B, cmds) ==
    B = [agents EXCEPT ![a] = new] /\ (cmds = NoLongerFresh(command) \/ (cmds = command /\ B = agents))

LEMMA ChangedByOne ==
  ASSUME CommandsInv, NEW a \in CmdAgents, NEW new,
         new \in CmdAgentState,
         NoFurther(new, agents[a]), NEW B, NEW cmds, IsChange(a, new, B, cmds)
  PROVE /\ B \in CmdAgentStates /\ B[a] = new
        /\ cmds \in [Terminals -> CmdRecords]
        /\ \A u \in Terminals : IsTruthful(cmds[u], seen[u], B) /\ SameWork(cmds[u], command[u])
<1>1. B \in CmdAgentStates /\ B[a] = new /\ \A b \in CmdAgents : b # a => B[b] = agents[b]
  BY DEF CommandsInv, CmdAgentStates, IsChange
<1>2. \A b \in CmdAgents : NoFurther(B[b], agents[b])
  BY <1>1 DEF NoFurther
<1>3. ASSUME NEW u \in Terminals
      PROVE cmds[u] = Told(command[u]) \/ (cmds[u] = command[u] /\ B = agents)
  BY DEF NoLongerFresh, Told, IsChange
<1>4. ASSUME NEW u \in Terminals
      PROVE IsTruthful(cmds[u], seen[u], B) /\ SameWork(cmds[u], command[u])
  <2>1. IsTruthful(command[u], seen[u], agents)
    BY DEF CommandsInv
  <2>2. IsTruthful(Told(command[u]), seen[u], B) /\ SameWork(Told(command[u]), command[u])
    BY <1>2, <2>1, ToldStayTruthful, ZenonT(60)
  <2>3. SameWork(command[u], command[u])
    BY DEF SameWork
  <2> QED BY <1>3, <2>1, <2>2, <2>3, ZenonT(60)
<1>5. cmds \in [Terminals -> CmdRecords]
  <2>1. \A u \in Terminals : cmds[u] \in CmdRecords
    BY <1>4 DEF IsTruthful
  <2>2. cmds = [u \in Terminals |-> cmds[u]]
    BY DEF NoLongerFresh, CommandsInv, IsChange
  <2> QED BY <2>1, <2>2
<1> QED BY <1>1, <1>4, <1>5

\* An agent as a command asks it to be has converged only if it had, to the same run state.
LEMMA RecordedHasNotMoved ==
  ASSUME agents \in CmdAgentStates, NEW a \in CmdAgents, NEW op \in WaitedFor \cup {"stop all"},
         agents[a].exists \/ op = "apply"
  PROVE /\ Recorded(a, op) \in CmdAgentState
        /\ NoFurther(Recorded(a, op), agents[a])
<1> DEFINE x == agents[a]  new == Recorded(a, op)
<1>0. x \in CmdAgentState
  BY DEF CmdAgentStates
<1>1. CASE op = "apply" /\ ~x.exists
  <2>1. new = [exists |-> TRUE, run |-> "Running", done |-> FALSE]
    BY <1>1 DEF Recorded
  <2> HIDE DEF new
  <2>2. new.exists = TRUE /\ new.run = "Running" /\ new.done = FALSE
    BY <2>1
  <2>3. "Running" \in RunStates
    BY DEF RunStates
  <2>4. new \in CmdAgentState
    BY <2>1, <2>3, ZenonT(60) DEF CmdAgentState
  <2> QED BY <2>2, <2>4, ZenonT(60) DEF new, NoFurther
<1>2. CASE op \in {"apply", "wait"} /\ ~(op = "apply" /\ ~x.exists)
  <2>1. new = x
    BY <1>2 DEF Recorded
  <2>2. x.exists
    BY <1>2
  <2> QED BY <1>0, <2>1, <2>2, ZenonT(60) DEF NoFurther
<1>3. CASE op \notin {"apply", "wait"}
  <2>1. new = [x EXCEPT !.run = Asked(op), !.done = @ /\ op # "restart" /\ x.run = Asked(op)]
    BY <1>3 DEF Recorded
  <2>2. op \in {"stop", "kill", "stop all", "start", "restart"}
    BY <1>3 DEF WaitedFor
  <2>3. Asked(op) \in RunStates
    BY <2>2 DEF Asked, RunStates
  <2>4. PICK d \in BOOLEAN : d = (x.done /\ op # "restart" /\ x.run = Asked(op))
    BY <1>0 DEF CmdAgentState
  <2>5. new = [x EXCEPT !.run = Asked(op), !.done = d]
    BY <2>1, <2>4
  <2> HIDE DEF new, x
  <2>6. new.run = Asked(op) /\ new \in CmdAgentState
    BY <1>0, <2>3, <2>5 DEF CmdAgentState
  <2>7. new.exists = x.exists /\ new.done = d
    BY <1>0, <2>5, ZenonT(60) DEF CmdAgentState
  <2>8. x.exists
    BY <1>3 DEF x
  <2>9. new.done => x.done /\ x.run = Asked(op)
    BY <2>4, <2>7, ZenonT(60)
  <2> QED BY <2>6, <2>8, <2>9, ZenonT(60) DEF new, x, NoFurther
<1> QED BY <1>1, <1>2, <1>3

LEMMA SeenInIsSeen ==
  ASSUME NEW a \in CmdAgents, NEW new \in CmdAgentState, NEW B, B[a] = new
  PROVE SeenIn(a, new) \in SUBSET (CmdAgents \X RunStates) /\ \A r : SeenIn(a, new) \subseteq r => IsSeen(a, r, B)
<1>1. new.run \in RunStates
  BY DEF CmdAgentState
<1>2. SeenIn(a, new) \in SUBSET (CmdAgents \X RunStates)
  BY <1>1 DEF SeenIn
<1>3. new.done => <<a, new.run>> \in SeenIn(a, new)
  BY ZenonT(60) DEF SeenIn
<1> QED BY <1>2, <1>3, ZenonT(60) DEF IsSeen

\* A command that has recorded its change waits; what it saw counts from now on.
LEMMA ItWaits ==
  ASSUME NEW k, NEW s, NEW B, IsTruthful(k, s, B), k.step = "asks", k.line.op \in WaitedFor, NEW r, IsSeen(k.agent, r, B),
         NEW n, n = [k EXCEPT !.step = "converging"]
  PROVE IsTruthful(n, r, B)
<1>1. k \in CmdRecords /\ k.said = "nothing" /\ k.recorded = {} /\ ~k.fresh /\ k.agent \in CmdAgents
  BY DEF IsTruthful, MayBeAt, Asking
<1>2. /\ n \in CmdRecords /\ n.step = "converging" /\ n.said = k.said /\ n.line = k.line /\ n.agent = k.agent
      /\ n.recorded = k.recorded
  BY <1>1 DEF CmdRecords, CommandSteps
<1>3. n.fresh = k.fresh
  BY <1>1, ZenonT(60) DEF CmdRecords
<1>4. MaySay(n, n.said, r)
  BY <1>1, <1>2 DEF MaySay
<1>5. MayBeAt(n, "converging", r, B)
  BY <1>1, <1>2, <1>3, ZenonT(60) DEF MayBeAt
<1> QED BY <1>1, <1>2, <1>3, <1>4, <1>5, ZenonT(60) DEF IsTruthful

LEMMA AsksForChangeTells ==
  ASSUME CommandsInv, NEW t \in Terminals, AsksForChange(t)
  PROVE CommandsInv'
<1> DEFINE a == command[t].agent  new == Recorded(a, Op(t))
<1>0. /\ command[t].step = "asks" /\ Op(t) = command[t].line.op /\ Op(t) \in WaitedFor
      /\ a \in CmdAgents /\ agents \in CmdAgentStates
  BY ItsAgent DEF AsksForChange, StepIs, Op, WaitedFor, Asking
<1>1. CASE /\ CommandSays(t, "failed") \/ CommandSays(t, "is stopped")
           /\ UNCHANGED <<agents, seen>>
  BY <1>1, ATerminalSaysLittle DEF SaidAnytime
<1>2. CASE /\ agents[a].exists \/ Op(t) = "apply"
           /\ agents' = [agents EXCEPT ![a] = new]
           /\ seen' = [seen EXCEPT ![t] = SeenIn(a, new)]
           /\ command' = [IF new = agents[a] THEN command ELSE NoLongerFresh(command) EXCEPT ![t].step = "converging"]
  <2>1. new \in CmdAgentState /\ NoFurther(new, agents[a])
    BY <1>0, <1>2, RecordedHasNotMoved
  <2>2. PICK B : B = [agents EXCEPT ![a] = new]
    OBVIOUS
  <2>3. PICK cmds : cmds = IF new = agents[a] THEN command ELSE NoLongerFresh(command)
    OBVIOUS
  <2>4. IsChange(a, new, B, cmds)
    BY <1>0, <2>2, <2>3 DEF CmdAgentStates, IsChange
  <2>5. /\ agents' = B /\ seen' = [seen EXCEPT ![t] = SeenIn(a, new)]
        /\ command' = [cmds EXCEPT ![t].step = "converging"]
    BY <1>2, <2>2, <2>3
  <2>6. command[t].line.op \in WaitedFor /\ command[t].step = "asks" /\ a = command[t].agent
    BY <1>0
  <2>6a. a \in CmdAgents
    BY <1>0
  <2> HIDE DEF a, new
  <2>7. /\ B \in CmdAgentStates /\ B[a] = new /\ cmds \in [Terminals -> CmdRecords]
        /\ \A u \in Terminals : IsTruthful(cmds[u], seen[u], B) /\ SameWork(cmds[u], command[u])
    BY <2>1, <2>4, <2>6a, ChangedByOne
  <2>7a. cmds[t].step = "asks" /\ cmds[t].line = command[t].line /\ cmds[t].agent = command[t].agent
    BY <2>6, <2>7 DEF SameWork
  <2>8. PICK n : n = [cmds[t] EXCEPT !.step = "converging"]
    OBVIOUS
  <2>9. command' = [cmds EXCEPT ![t] = n]
    BY <2>5, <2>7, <2>8
  <2>10. SeenIn(a, new) \in SUBSET (CmdAgents \X RunStates) /\ IsSeen(a, SeenIn(a, new), B)
    BY <2>1, <2>6a, <2>7, SeenInIsSeen
  <2>11. IsTruthful(n, SeenIn(a, new), B)
    BY <2>6, <2>7, <2>7a, <2>8, <2>10, ItWaits, ZenonT(60)
  <2> QED BY <2>5, <2>7, <2>9, <2>10, <2>11, OneCommandGoesOn DEF CommandsInv
<1> QED BY <1>1, <1>2, ZenonT(60) DEF AsksForChange

LEMMA AsksOnceTells ==
  ASSUME CommandsInv, NEW t \in Terminals, AsksOnce(t)
  PROVE CommandsInv'
<1> DEFINE a == command[t].agent  new == [agents[a] EXCEPT !.exists = FALSE]
<1>0. command[t].step = "asks" /\ a \in CmdAgents /\ agents \in CmdAgentStates /\ seen' = seen
  BY ItsAgent DEF AsksOnce, StepIs, Asking
<1>1. CASE (CommandSays(t, "failed") \/ CommandSays(t, "described")) /\ agents' = agents
  BY <1>0, <1>1, ATerminalSaysLittle DEF SaidAnytime
<1>2. CASE /\ agents' = [agents EXCEPT ![a].exists = FALSE]
           /\ command' = [NoLongerFresh(command) EXCEPT ![t].step = "shell", ![t].said = "deleted"]
  <2>1. PICK cmds : cmds = NoLongerFresh(command)
    OBVIOUS
  <2>2. PICK B : B = [agents EXCEPT ![a] = new]
    OBVIOUS
  <2>3. agents' = B /\ command' = [cmds EXCEPT ![t].step = "shell", ![t].said = "deleted"]
    BY <1>0, <1>2, <2>1, <2>2 DEF CmdAgentStates
  <2>4. new \in CmdAgentState /\ new.exists = FALSE
    BY <1>0, ZenonT(60) DEF CmdAgentStates, CmdAgentState
  <2>5. IsChange(a, new, B, cmds) /\ NoFurther(new, agents[a])
    BY <2>1, <2>2, <2>4 DEF IsChange, NoFurther
  <2>6. a \in CmdAgents
    BY <1>0
  <2> HIDE DEF a, new
  <2>7. /\ B \in CmdAgentStates /\ cmds \in [Terminals -> CmdRecords]
        /\ \A u \in Terminals : IsTruthful(cmds[u], seen[u], B)
    BY <2>4, <2>5, <2>6, ChangedByOne
  <2>8. PICK n : n = [cmds[t] EXCEPT !.step = "shell", !.said = "deleted"]
    OBVIOUS
  <2>9. command' = [cmds EXCEPT ![t] = n]
    BY <2>3, <2>7, <2>8
  <2>10. "deleted" \in CmdWords /\ MaySay(cmds[t], "deleted", seen[t])
    BY AnytimeIsTrue DEF SaidAnytime
  <2>11. IsTruthful(n, seen[t], B)
    BY <2>7, <2>8, <2>10, ItSays
  <2>12. seen' = [seen EXCEPT ![t] = seen[t]] /\ seen[t] \in SUBSET (CmdAgents \X RunStates)
    BY <1>0 DEF CommandsInv
  <2> QED BY <2>3, <2>7, <2>9, <2>11, <2>12, OneCommandGoesOn DEF CommandsInv
<1> QED BY <1>1, <1>2, ZenonT(60) DEF AsksOnce

\* One stop of the list is recorded, or failed.
IsRecorded(k, a, able, n) ==
    \E recorded, failed, remaining :
        /\ recorded = k.recorded \cup (IF able THEN {a} ELSE {})
        /\ failed = k.failed \cup (IF able THEN {} ELSE {a}) /\ remaining = k.left \ {a}
        /\ n = [k EXCEPT !.recorded = recorded, !.failed = failed, !.step = IF remaining = {} THEN "waits" ELSE "records",
                         !.left = IF remaining = {} THEN recorded ELSE remaining]

LEMMA ItRecords ==
  ASSUME NEW k, NEW s, NEW B, IsTruthful(k, s, B), k.step = "records", NEW a \in k.left, NEW able \in BOOLEAN,
         NEW r, s \subseteq r, able => IsSeen(a, r, B), NEW n, IsRecorded(k, a, able, n)
  PROVE IsTruthful(n, r, B)
<1>0. PICK recorded, failed, remaining :
        /\ recorded = k.recorded \cup (IF able THEN {a} ELSE {})
        /\ failed = k.failed \cup (IF able THEN {} ELSE {a}) /\ remaining = k.left \ {a}
        /\ n = [k EXCEPT !.recorded = recorded, !.failed = failed, !.step = IF remaining = {} THEN "waits" ELSE "records",
                         !.left = IF remaining = {} THEN recorded ELSE remaining]
  BY ZenonT(60) DEF IsRecorded
<1>1. k \in CmdRecords /\ k.said = "nothing" /\ ~k.fresh
  BY DEF IsTruthful, MayBeAt
<1>2. /\ k.listed \subseteq k.left \cup k.recorded \cup k.failed
      /\ \A b \in k.recorded : IsSeen(b, s, B)
  BY DEF IsTruthful, MayBeAt
<1>3. k.left \subseteq CmdAgents /\ k.recorded \subseteq CmdAgents /\ k.failed \subseteq CmdAgents
  BY <1>1 DEF CmdRecords
<1>4. recorded \in SUBSET CmdAgents /\ failed \in SUBSET CmdAgents /\ remaining \in SUBSET CmdAgents
  BY <1>0, <1>3
<1>5. PICK x \in {"waits", "records"} : x = IF remaining = {} THEN "waits" ELSE "records"
  OBVIOUS
<1>6. PICK l \in SUBSET CmdAgents : l = IF remaining = {} THEN recorded ELSE remaining
  BY <1>4
<1>7. n = [k EXCEPT !.recorded = recorded, !.failed = failed, !.step = x, !.left = l]
  BY <1>0, <1>5, <1>6
<1>8. /\ n.step = x /\ n.said = k.said /\ n.line = k.line /\ n.agent = k.agent
      /\ n.listed = k.listed /\ n.left = l /\ n.recorded = recorded /\ n.failed = failed
  BY <1>1, <1>7 DEF CmdRecords
<1>9. n.fresh = k.fresh
  BY <1>1, <1>7, ZenonT(60) DEF CmdRecords
<1>10. n \in CmdRecords
  <2>1. x \in CommandSteps
    BY DEF CommandSteps
  <2> QED BY <1>1, <1>4, <1>7, <2>1 DEF CmdRecords
<1>11. MaySay(n, n.said, r)
  BY <1>1, <1>8 DEF MaySay
<1>12. \A b \in recorded : IsSeen(b, r, B)
  <2>1. \A b : IsSeen(b, s, B) => IsSeen(b, r, B)
    BY ZenonT(60) DEF IsSeen
  <2> QED BY <1>0, <1>2, <2>1
<1>13. x = "records" => n.listed \subseteq n.left \cup n.recorded \cup n.failed
  BY <1>0, <1>2, <1>5, <1>6, <1>8
<1>14. x = "waits" => n.left \subseteq n.recorded /\ \A b \in n.listed : b \in n.left \/ b \in n.failed
  BY <1>0, <1>2, <1>5, <1>6, <1>8
<1>15. MayBeAt(n, x, r, B)
  <2>1. /\ x # "health" /\ x # "starting" /\ x \notin Asking /\ x # "converging" /\ x # "targets" /\ x # "confirms"
        /\ x \in {"records", "waits"}
    BY DEF Asking
  <2>2. ~n.fresh
    BY <1>1, <1>9, ZenonT(60)
  <2>3. \A b \in n.recorded : IsSeen(b, r, B)
    BY <1>8, <1>12
  <2> QED BY <1>13, <1>14, <2>1, <2>2, <2>3, ZenonT(60) DEF MayBeAt
<1>16. n.step = x /\ n.step # "shell" => n.said = "nothing"
  BY <1>1, <1>8
<1> QED BY <1>1, <1>8, <1>9, <1>10, <1>11, <1>15, ZenonT(60) DEF IsTruthful

LEMMA RecordsStopTells ==
  ASSUME CommandsInv, NEW t \in Terminals, NEW a \in CmdAgents, RecordsStop(t, a)
  PROVE CommandsInv'
<1> DEFINE new == Recorded(a, "stop all")
           able == agentd.serves /\ agents[a].exists
           remaining == command[t].left \ {a}
           cmds0 == IF able /\ new # agents[a] THEN NoLongerFresh(command) ELSE command
           recorded == command[t].recorded \cup (IF able THEN {a} ELSE {})
           failed == command[t].failed \cup (IF able THEN {} ELSE {a})
<1>0. command[t].step = "records" /\ a \in command[t].left /\ agents \in CmdAgentStates
  BY ItsAgent DEF RecordsStop, StepIs
<1>1. PICK C : C = cmds0
  OBVIOUS
<1>2. /\ agents' = IF able THEN [agents EXCEPT ![a] = new] ELSE agents
      /\ seen' = IF able THEN [seen EXCEPT ![t] = @ \cup SeenIn(a, new)] ELSE seen
      /\ command' = [C EXCEPT ![t].recorded = recorded, ![t].failed = failed,
                               ![t].step = IF remaining = {} THEN "waits" ELSE "records",
                               ![t].left = IF remaining = {} THEN recorded ELSE remaining]
  BY <1>1 DEF RecordsStop
<1>3. PICK B : B = IF able THEN [agents EXCEPT ![a] = new] ELSE agents
  OBVIOUS
<1>4. able => new \in CmdAgentState /\ NoFurther(new, agents[a])
  BY <1>0, RecordedHasNotMoved
<1>5. able => IsChange(a, new, B, C)
  BY <1>0, <1>1, <1>3 DEF IsChange, CmdAgentStates
<1>6. ~able => B = agents /\ C = command
  BY <1>1, <1>3
<1>7. PICK s : s = IF able THEN seen[t] \cup SeenIn(a, new) ELSE seen[t]
  OBVIOUS
<1>8. PICK e \in BOOLEAN : e = able
  OBVIOUS
<1>9. /\ agents' = B /\ seen' = [seen EXCEPT ![t] = s]
      /\ command' = [C EXCEPT ![t].recorded = recorded, ![t].failed = failed,
                               ![t].step = IF remaining = {} THEN "waits" ELSE "records",
                               ![t].left = IF remaining = {} THEN recorded ELSE remaining]
  BY <1>2, <1>3, <1>7 DEF CommandsInv
<1>10. /\ recorded = command[t].recorded \cup (IF e THEN {a} ELSE {})
       /\ failed = command[t].failed \cup (IF e THEN {} ELSE {a}) /\ remaining = command[t].left \ {a}
  BY <1>8
<1> HIDE DEF new, able, remaining, cmds0, recorded, failed
<1>11. /\ B \in CmdAgentStates /\ C \in [Terminals -> CmdRecords] /\ (e => B[a] = new)
       /\ \A u \in Terminals : IsTruthful(C[u], seen[u], B) /\ SameWork(C[u], command[u])
  <2>1. CASE e
    BY <1>4, <1>5, <1>8, <2>1, ChangedByOne
  <2>2. CASE ~e
    BY <1>6, <1>8, <2>2, ZenonT(60) DEF CommandsInv, SameWork
  <2> QED BY <2>1, <2>2
<1>12. /\ C[t].step = "records" /\ C[t].left = command[t].left /\ C[t].recorded = command[t].recorded
       /\ C[t].failed = command[t].failed
  BY <1>0, <1>11 DEF SameWork
<1>13. seen[t] \in SUBSET (CmdAgents \X RunStates)
  BY DEF CommandsInv
<1>14. s \in SUBSET (CmdAgents \X RunStates) /\ seen[t] \subseteq s /\ (e => IsSeen(a, s, B))
  <2>1. CASE e
    <3>1. SeenIn(a, new) \in SUBSET (CmdAgents \X RunStates) /\ \A r : SeenIn(a, new) \subseteq r => IsSeen(a, r, B)
      BY <1>4, <1>8, <1>11, <2>1, SeenInIsSeen
    <3>2. s = seen[t] \cup SeenIn(a, new)
      BY <1>7, <1>8, <2>1
    <3> QED BY <1>13, <3>1, <3>2
  <2>2. CASE ~e
    BY <1>7, <1>8, <1>13, <2>2
  <2> QED BY <2>1, <2>2
<1>15. PICK n : n = [C[t] EXCEPT !.recorded = recorded, !.failed = failed,
                                 !.step = IF remaining = {} THEN "waits" ELSE "records",
                                 !.left = IF remaining = {} THEN recorded ELSE remaining]
  OBVIOUS
<1>16. command' = [C EXCEPT ![t] = n]
  BY <1>9, <1>11, <1>15
<1>17. IsTruthful(n, s, B)
  <2>1. PICK k : k = C[t]
    OBVIOUS
  <2>2. IsTruthful(k, seen[t], B) /\ k.step = "records" /\ a \in k.left
    BY <1>0, <1>11, <1>12, <2>1
  <2>3. /\ recorded = k.recorded \cup (IF e THEN {a} ELSE {})
        /\ failed = k.failed \cup (IF e THEN {} ELSE {a}) /\ remaining = k.left \ {a}
    BY <1>10, <1>12, <2>1
  <2>4. n = [k EXCEPT !.recorded = recorded, !.failed = failed,
                      !.step = IF remaining = {} THEN "waits" ELSE "records",
                      !.left = IF remaining = {} THEN recorded ELSE remaining]
    BY <1>15, <2>1
  <2>5. IsRecorded(k, a, e, n)
    BY <2>3, <2>4, ZenonT(60) DEF IsRecorded
  <2> QED BY <1>14, <2>2, <2>5, ItRecords
<1> QED BY <1>9, <1>11, <1>14, <1>16, <1>17, OneCommandGoesOn DEF CommandsInv

\* What is said of an agent that converged is what it was seen to be.
LEMMA OutcomeIsSeen ==
  ASSUME NEW k, NEW s, k.line.op \in WaitedFor, NEW run \in RunStates, <<k.agent, run>> \in s
  PROVE Outcome(k.line.op, run) \in CmdWords /\ MaySay(k, Outcome(k.line.op, run), s)
<1> DEFINE said == Outcome(k.line.op, run)
<1>1. CASE run = "Stopped"
  <2>1. said \in {"stopped", "set again", "stopped again", "is stopped"}
    BY <1>1 DEF Outcome, WaitedFor
  <2>2. CASE said = "stopped"
    BY <1>1, <2>2 DEF MaySay, CmdWords, SaidOfWhatIsSeen
  <2>3. CASE said \in {"set again", "stopped again", "is stopped"}
    <3>1. said \in SaidAnytime
      BY <2>3 DEF SaidAnytime
    <3> QED BY <3>1, AnytimeIsTrue
  <2> QED BY <2>1, <2>2, <2>3
<1>2. CASE run = "Running"
  <2>1. said \in {"started again", "started", "restarted", "ready", "condition met"}
    BY <1>2 DEF Outcome, WaitedFor
  <2>2. CASE said \in {"started", "restarted", "ready", "condition met"}
    BY <1>2, <2>2 DEF MaySay, CmdWords, SaidOfWhatIsSeen
  <2>3. CASE said = "started again"
    <3>1. said \in SaidAnytime
      BY <2>3 DEF SaidAnytime
    <3> QED BY <3>1, AnytimeIsTrue
  <2> QED BY <2>1, <2>2, <2>3
<1> QED BY <1>1, <1>2 DEF RunStates

LEMMA ConvergesTells ==
  ASSUME CommandsInv, NEW t \in Terminals, Converges(t)
  PROVE CommandsInv'
<1> DEFINE a == command[t].agent
<1>0. command[t].step = "converging" /\ agents' = agents /\ seen' = seen
  BY DEF Converges, StepIs, Shell
<1>1. CASE CommandSays(t, "failed")
  BY <1>0, <1>1, ATerminalSaysLittle DEF SaidAnytime
<1>2. CASE agents[a].exists /\ agents[a].done /\ CommandSays(t, Outcome(Op(t), agents[a].run))
  <2>1. command[t].line.op \in WaitedFor /\ IsSeen(a, seen[t], agents) /\ a \in CmdAgents /\ agents \in CmdAgentStates
    BY <1>0, ItsAgent DEF MayBeAt, Asking
  <2>2. <<a, agents[a].run>> \in seen[t]
    BY <1>2, <2>1 DEF IsSeen
  <2>3. agents[a].run \in RunStates
    BY <2>1 DEF CmdAgentStates, CmdAgentState
  <2>4. PICK what : what = Outcome(command[t].line.op, agents[a].run)
    OBVIOUS
  <2>5. what \in CmdWords /\ MaySay(command[t], what, seen[t])
    BY <2>1, <2>2, <2>3, <2>4, OutcomeIsSeen
  <2>6. CommandSays(t, what)
    BY <1>2, <2>4 DEF Op
  <2> QED BY <1>0, <2>5, <2>6, ATerminalSays
<1> QED BY <1>1, <1>2, ZenonT(60) DEF Converges

LEMMA TimesOutTells ==
  ASSUME CommandsInv, NEW t \in Terminals, TimesOut(t) \/ CreateTimesOut(t)
  PROVE CommandsInv'
<1>1. CommandSays(t, "timed out") /\ agents' = agents /\ seen' = seen
  BY DEF TimesOut, CreateTimesOut, Shell
<1> QED BY <1>1, ATerminalSaysLittle DEF SaidAnytime

\* The agents to stop are listed.
LEMMA ItLists ==
  ASSUME NEW k, NEW s, NEW A, IsTruthful(k, s, A), k.step = "listing", NEW names \in SUBSET CmdAgents,
         NEW n, n = [k EXCEPT !.step = "confirms", !.listed = names, !.left = names]
  PROVE IsTruthful(n, s, A)
<1>1. k \in CmdRecords /\ k.said = "nothing" /\ k.recorded = {} /\ ~k.fresh
  BY DEF IsTruthful, MayBeAt, Asking
<1>2. /\ n \in CmdRecords /\ n.step = "confirms" /\ n.said = k.said /\ n.listed = names /\ n.left = names
      /\ n.recorded = k.recorded
  BY <1>1 DEF CmdRecords, CommandSteps
<1>3. n.fresh = k.fresh
  BY <1>1, ZenonT(60) DEF CmdRecords
<1>4. MaySay(n, n.said, s)
  BY <1>1, <1>2 DEF MaySay
<1>5. MayBeAt(n, "confirms", s, A)
  <2>1. ~n.fresh
    BY <1>1, <1>3, ZenonT(60)
  <2> QED BY <1>1, <1>2, <2>1 DEF MayBeAt, Asking
<1> QED BY <1>1, <1>2, <1>3, <1>4, <1>5, ZenonT(60) DEF IsTruthful

LEMMA ListsRunningTells ==
  ASSUME CommandsInv, NEW t \in Terminals, ListsRunning(t)
  PROVE CommandsInv'
<1> DEFINE names == {a \in CmdAgents : agents[a].exists /\ ~(agents[a].run = "Stopped" /\ agents[a].done)}
<1>0. command[t].step = "listing" /\ agents' = agents /\ seen' = seen
  BY DEF ListsRunning, StepIs, Shell
<1>1. CASE CommandSays(t, "failed") \/ CommandSays(t, "no agent is running")
  BY <1>0, <1>1, ATerminalSaysLittle DEF SaidAnytime
<1>2. CASE command' = [command EXCEPT ![t].step = "confirms", ![t].listed = names, ![t].left = names]
  <2>1. PICK N \in SUBSET CmdAgents : N = names
    OBVIOUS
  <2> HIDE DEF names
  <2>2. PICK n : n = [command[t] EXCEPT !.step = "confirms", !.listed = N, !.left = N]
    OBVIOUS
  <2>3. command' = [command EXCEPT ![t] = n]
    BY <1>2, <2>1, <2>2 DEF CommandsInv
  <2>4. IsTruthful(n, seen[t], agents)
    BY <1>0, <2>2, ItLists, ItsAgent
  <2> QED BY <1>0, <2>3, <2>4, ATerminalMoves
<1> QED BY <1>1, <1>2, ZenonT(60) DEF ListsRunning

LEMMA ConfirmsDeleteTells ==
  ASSUME CommandsInv, NEW t \in Terminals, ConfirmsDelete(t)
  PROVE CommandsInv'
<1>0. command[t].step = "confirms" /\ agents' = agents /\ seen' = seen
  BY DEF ConfirmsDelete, StepIs, Shell
<1>1. CASE CommandSays(t, "declined")
  BY <1>0, <1>1, ATerminalSaysLittle DEF SaidAnytime
<1>2. CASE Goes_(t, "records")
  <2>1. command[t].left = command[t].listed /\ command[t].recorded = {} /\ ~command[t].fresh
    BY <1>0, ItsAgent DEF MayBeAt, Asking
  <2>2. MayBeAt(command[t], "records", seen[t], agents)
    BY <2>1 DEF MayBeAt, Asking
  <2> QED BY <1>0, <1>2, <2>2, ATerminalGoes DEF CommandSteps
<1> QED BY <1>1, <1>2 DEF ConfirmsDelete

\* One is waited for no more: it stopped, or it is counted among those that did not.
LEMMA ItWaitsFor ==
  ASSUME NEW k, NEW s, NEW A, IsTruthful(k, s, A), k.step = "waits", NEW a, NEW missed \in BOOLEAN,
         a \in k.left, ~missed => <<a, "Stopped">> \in s,
         NEW n, n = [k EXCEPT !.left = @ \ {a}, !.failed = IF missed THEN @ \cup {a} ELSE @]
  PROVE IsTruthful(n, s, A)
<1>1. k \in CmdRecords /\ k.said = "nothing" /\ ~k.fresh
  BY DEF IsTruthful, MayBeAt, Asking
<1>2. /\ \A b \in k.recorded : IsSeen(b, s, A)
      /\ k.left \subseteq k.recorded /\ \A b \in k.listed : b \in k.left \/ b \in k.failed \/ <<b, "Stopped">> \in s
  BY DEF IsTruthful, MayBeAt
<1>3. k.left \subseteq CmdAgents /\ k.failed \subseteq CmdAgents
  BY <1>1 DEF CmdRecords
<1>4. PICK l \in SUBSET CmdAgents : l = k.left \ {a}
  BY <1>3
<1>5. PICK f \in SUBSET CmdAgents : f = IF missed THEN k.failed \cup {a} ELSE k.failed
  BY <1>3
<1>6. n = [k EXCEPT !.left = l, !.failed = f]
  BY <1>4, <1>5
<1>7. /\ n \in CmdRecords /\ n.step = "waits" /\ n.said = k.said /\ n.listed = k.listed /\ n.left = l
      /\ n.recorded = k.recorded /\ n.failed = f
  BY <1>1, <1>6 DEF CmdRecords
<1>8. n.fresh = k.fresh
  BY <1>1, <1>6, ZenonT(60) DEF CmdRecords
<1>9. MaySay(n, n.said, s)
  BY <1>1, <1>7 DEF MaySay
<1>10. n.left \subseteq n.recorded /\ \A b \in n.listed : b \in n.left \/ b \in n.failed \/ <<b, "Stopped">> \in s
  BY <1>2, <1>4, <1>5, <1>7
<1>11. MayBeAt(n, "waits", s, A)
  <2>1. ~n.fresh
    BY <1>1, <1>8, ZenonT(60)
  <2> QED BY <1>2, <1>7, <1>10, <2>1 DEF MayBeAt, Asking
<1> QED BY <1>1, <1>7, <1>8, <1>9, <1>11, ZenonT(60) DEF IsTruthful

LEMMA WaitsForStopTells ==
  ASSUME CommandsInv, NEW t \in Terminals, NEW a \in CmdAgents, WaitsForStop(t, a)
  PROVE CommandsInv'
<1>0. command[t].step = "waits" /\ a \in command[t].left /\ agents' = agents /\ seen' = seen
  BY DEF WaitsForStop, StepIs, Shell
<1>1. IsSeen(a, seen[t], agents)
  BY <1>0, ItsAgent DEF MayBeAt
<1>2. PICK missed \in BOOLEAN : missed = (DidNot(t, a) \/ (command[t].late /\ ~agents[a].done))
  OBVIOUS
<1>3. ~missed => <<a, "Stopped">> \in seen[t]
  <2>1. ~missed => agents[a].exists /\ agents[a].run = "Stopped"
    BY <1>2 DEF DidNot
  <2>2. ~missed => agents[a].done
    BY <1>2, ZenonT(60) DEF WaitsForStop, DidNot
  <2> QED BY <1>1, <2>1, <2>2 DEF IsSeen
<1>4. PICK n : n = [command[t] EXCEPT !.left = @ \ {a}, !.failed = IF missed THEN @ \cup {a} ELSE @]
  OBVIOUS
<1>5. command' = [command EXCEPT ![t].left = @ \ {a}, ![t].failed = IF missed THEN @ \cup {a} ELSE @]
  BY <1>2 DEF WaitsForStop
<1>6. command' = [command EXCEPT ![t] = n]
  BY <1>4, <1>5 DEF CommandsInv
<1>7. IsTruthful(n, seen[t], agents)
  BY <1>0, <1>3, <1>4, ItWaitsFor, ItsAgent
<1> QED BY <1>0, <1>6, <1>7, ATerminalMoves

LEMMA PassesDeadlineTells ==
  ASSUME CommandsInv, NEW t \in Terminals, PassesDeadline(t)
  PROVE CommandsInv'
<1>0. command[t].step = "waits" /\ agents' = agents /\ seen' = seen /\ command' = [command EXCEPT ![t].late = TRUE]
  BY DEF PassesDeadline, StepIs, Shell
<1>1. PICK k : k = command[t]
  OBVIOUS
<1>2. k \in CmdRecords /\ k.said = "nothing" /\ MayBeAt(k, "waits", seen[t], agents) /\ ~k.fresh
  BY <1>0, <1>1, ItsAgent DEF IsTruthful, MayBeAt, Asking
<1>3. PICK n : n = [k EXCEPT !.late = TRUE]
  OBVIOUS
<1>4. /\ n.step = k.step /\ n.said = k.said /\ n.line = k.line /\ n.agent = k.agent
      /\ n.listed = k.listed /\ n.left = k.left /\ n.recorded = k.recorded /\ n.failed = k.failed
  BY <1>2, <1>3 DEF CmdRecords
<1>5. n.fresh = k.fresh /\ n \in CmdRecords
  BY <1>2, <1>3, ZenonT(60) DEF CmdRecords
<1>6. MaySay(n, n.said, seen[t])
  BY <1>2, <1>4 DEF MaySay
<1>7. MayBeAt(n, "waits", seen[t], agents)
  BY <1>2, <1>4, <1>5, ZenonT(60) DEF MayBeAt
<1>8. IsTruthful(n, seen[t], agents)
  <2>1. n.step = "waits"
    BY <1>0, <1>1, <1>4
  <2> QED BY <1>2, <1>4, <1>5, <1>6, <1>7, <2>1, ZenonT(60) DEF IsTruthful
<1>9. command' = [command EXCEPT ![t] = n]
  BY <1>0, <1>1, <1>3 DEF CommandsInv
<1> QED BY <1>0, <1>8, <1>9, ATerminalMoves

LEMMA CountsStoppedTells ==
  ASSUME CommandsInv, NEW t \in Terminals, CountsStopped(t)
  PROVE CommandsInv'
<1>0. command[t].step = "waits" /\ command[t].left = {} /\ agents' = agents /\ seen' = seen
  BY DEF CountsStopped, StepIs, Shell
<1>1. CASE command[t].failed # {}
  <2>1. CommandSays(t, "some did not stop")
    BY <1>1 DEF CountsStopped
  <2> QED BY <1>0, <2>1, ATerminalSaysLittle DEF SaidAnytime
<1>2. CASE command[t].failed = {}
  <2>1. CommandSays(t, "every agent is stopped")
    BY <1>2 DEF CountsStopped
  <2>2. \A b \in command[t].listed : <<b, "Stopped">> \in seen[t]
    BY <1>0, <1>2, ItsAgent DEF MayBeAt
  <2>3. MaySay(command[t], "every agent is stopped", seen[t])
    BY <2>2 DEF MaySay
  <2> QED BY <1>0, <2>1, <2>3, ATerminalSays DEF CmdWords, SaidOfWhatIsSeen
<1> QED BY <1>1, <1>2

\* A command in the sandbox waits until its agent is ready.
LEMMA ItTargets ==
  ASSUME NEW k, NEW s, NEW A, IsTruthful(k, s, A), k.step = "asks", k.line.op \in InTheSandbox, NEW p \in BOOLEAN,
         NEW n, n = [k EXCEPT !.step = "targets", !.port = p]
  PROVE IsTruthful(n, s, A)
<1>1. k \in CmdRecords /\ k.said = "nothing" /\ k.recorded = {} /\ ~k.fresh /\ k.agent \in CmdAgents
  BY DEF IsTruthful, MayBeAt, Asking
<1>2. /\ n.step = "targets" /\ n.said = k.said /\ n.line = k.line /\ n.agent = k.agent /\ n.recorded = k.recorded
  BY <1>1 DEF CmdRecords
<1>3. n.fresh = k.fresh /\ n \in CmdRecords
  <2>1. "targets" \in CommandSteps
    BY DEF CommandSteps
  <2> QED BY <1>1, <2>1, ZenonT(60) DEF CmdRecords
<1>4. MaySay(n, n.said, s)
  BY <1>1, <1>2 DEF MaySay
<1>5. MayBeAt(n, "targets", s, A)
  <2>1. ~n.fresh
    BY <1>1, <1>3, ZenonT(60)
  <2> QED BY <1>1, <1>2, <2>1 DEF MayBeAt, Asking
<1> QED BY <1>1, <1>2, <1>3, <1>4, <1>5, ZenonT(60) DEF IsTruthful

LEMMA EnsuresReadyTells ==
  ASSUME CommandsInv, NEW t \in Terminals, EnsuresReady(t)
  PROVE CommandsInv'
<1> DEFINE a == command[t].agent
<1>0. command[t].step = "asks" /\ command[t].line.op \in InTheSandbox /\ agents' = agents /\ seen' = seen
  BY DEF EnsuresReady, StepIs, Shell, Op, InTheSandbox
<1>1. CASE CommandSays(t, "failed")
  BY <1>0, <1>1, ATerminalSaysLittle DEF SaidAnytime
<1>2. CASE command' = [command EXCEPT ![t].step = "targets", ![t].port = WebPort(a)]
  <2>1. PICK p \in BOOLEAN : p = WebPort(a)
    BY DEF WebPort
  <2>2. PICK n : n = [command[t] EXCEPT !.step = "targets", !.port = p]
    OBVIOUS
  <2>3. command' = [command EXCEPT ![t].step = "targets", ![t].port = p]
    BY <1>2, <2>1
  <2>4. command' = [command EXCEPT ![t] = n]
    BY <2>2, <2>3 DEF CommandsInv
  <2>5. IsTruthful(n, seen[t], agents)
    BY <1>0, <2>2, ItTargets, ItsAgent
  <2> QED BY <1>0, <2>4, <2>5, ATerminalMoves
<1> QED BY <1>1, <1>2, ZenonT(60) DEF EnsuresReady

\* A command holds the forwards that are left.
LEMMA ItHolds ==
  ASSUME NEW k, NEW s, NEW A, IsTruthful(k, s, A), k.step \in {"targets", "holds"}, NEW l \in SUBSET CmdAgents,
         NEW n, n = [k EXCEPT !.step = "holds", !.left = l] \/ (k.step = "holds" /\ n = [k EXCEPT !.left = l])
  PROVE IsTruthful(n, s, A)
<1>1. k \in CmdRecords /\ k.said = "nothing" /\ k.recorded = {} /\ ~k.fresh /\ k.agent \in CmdAgents
  BY DEF IsTruthful, MayBeAt, Asking
<1>2. /\ n.step = "holds" /\ n.said = k.said /\ n.line = k.line /\ n.agent = k.agent /\ n.recorded = k.recorded
  BY <1>1 DEF CmdRecords
<1>3. n.fresh = k.fresh /\ n \in CmdRecords
  <2>1. "holds" \in CommandSteps
    BY DEF CommandSteps
  <2> QED BY <1>1, <2>1, ZenonT(60) DEF CmdRecords
<1>4. MaySay(n, n.said, s)
  BY <1>1, <1>2 DEF MaySay
<1>5. MayBeAt(n, "holds", s, A)
  <2>1. ~n.fresh
    BY <1>1, <1>3, ZenonT(60)
  <2> QED BY <1>1, <1>2, <2>1 DEF MayBeAt, Asking
<1> QED BY <1>1, <1>2, <1>3, <1>4, <1>5, ZenonT(60) DEF IsTruthful

LEMMA ReadyTargetTells ==
  ASSUME CommandsInv, NEW t \in Terminals, ReadyTarget(t)
  PROVE CommandsInv'
<1> DEFINE a == command[t].agent
<1>0. command[t].step = "targets" /\ agents' = agents /\ seen' = seen
  BY DEF ReadyTarget, StepIs, Shell
<1>1. a \in CmdAgents /\ command[t].line.op \in InTheSandbox /\ command[t].recorded = {} /\ ~command[t].fresh
  BY <1>0, ItsAgent DEF MayBeAt, Asking
<1>2. CASE CommandSays(t, "failed") \/ CommandSays(t, "ssh") \/ CommandSays(t, "session ready")
  BY <1>0, <1>2, ATerminalSaysLittle DEF SaidAnytime
<1>3. CASE Goes_(t, "streams")
  <2>1. MayBeAt(command[t], "streams", seen[t], agents)
    BY <1>1 DEF MayBeAt, Asking
  <2> QED BY <1>0, <1>3, <2>1, ATerminalGoes DEF CommandSteps
<1>4. CASE \E l \in SUBSET CmdAgents : command' = [command EXCEPT ![t].step = "holds", ![t].left = l]
  <2>1. PICK l \in SUBSET CmdAgents : command' = [command EXCEPT ![t].step = "holds", ![t].left = l]
    BY <1>4
  <2>2. PICK n : n = [command[t] EXCEPT !.step = "holds", !.left = l]
    OBVIOUS
  <2>3. command' = [command EXCEPT ![t] = n]
    BY <2>1, <2>2 DEF CommandsInv
  <2>4. IsTruthful(n, seen[t], agents)
    BY <1>0, <2>2, ItHolds, ItsAgent
  <2> QED BY <1>0, <2>3, <2>4, ATerminalMoves
<1>5. CASE agents[a].done /\ ~DesktopPort(t) /\ CommandSays(t, "no viewer")
  <2>1. a \notin DesktopImages
    BY <1>5 DEF DesktopPort, WebPort
  <2>2. MaySay(command[t], "no viewer", seen[t])
    BY <2>1 DEF MaySay
  <2> QED BY <1>0, <1>5, <2>2, ATerminalSays DEF CmdWords, SaidOfWhatIsSeen
<1>6. CASE /\ agents[a].done
           /\ CASE Op(t) = "exec" -> Goes_(t, "streams")
                [] Op(t) = "ssh" -> CommandSays(t, "ssh")
                [] Op(t) = "forward" -> command' = [command EXCEPT ![t].step = "holds", ![t].left = CmdAgents]
                [] Op(t) = "vnc" -> IF DesktopPort(t)
                                    THEN command' = [command EXCEPT ![t].step = "holds", ![t].left = {a}]
                                    ELSE CommandSays(t, "no viewer")
                [] Op(t) = "create" -> CommandSays(t, "session ready")
  <2>1. Op(t) \in InTheSandbox
    BY <1>1 DEF Op
  <2>2. CASE Op(t) = "exec"
    <3>1. Goes_(t, "streams")
      BY <1>6, <2>2
    <3> QED BY <1>3, <3>1
  <2>3. CASE Op(t) = "ssh"
    <3>1. CommandSays(t, "ssh")
      BY <1>6, <2>3
    <3> QED BY <1>2, <3>1
  <2>4. CASE Op(t) = "forward"
    <3>1. command' = [command EXCEPT ![t].step = "holds", ![t].left = CmdAgents]
      BY <1>6, <2>4
    <3> QED BY <1>4, <3>1
  <2>5. CASE Op(t) = "vnc"
    <3>1. IF DesktopPort(t) THEN command' = [command EXCEPT ![t].step = "holds", ![t].left = {a}]
          ELSE CommandSays(t, "no viewer")
      BY <1>6, <2>5
    <3>2. {a} \in SUBSET CmdAgents
      BY <1>1
    <3> QED BY <1>4, <1>5, <1>6, <3>1, <3>2, ZenonT(60)
  <2>6. CASE Op(t) = "create"
    <3>1. CommandSays(t, "session ready")
      BY <1>6, <2>6
    <3> QED BY <1>2, <3>1
  <2> QED BY <2>1, <2>2, <2>3, <2>4, <2>5, <2>6 DEF InTheSandbox
<1> QED BY <1>2, <1>6, ZenonT(60) DEF ReadyTarget

LEMMA HoldsForwardsTells ==
  ASSUME CommandsInv, NEW t \in Terminals, HoldsForwards(t)
  PROVE CommandsInv'
<1>0. command[t].step = "holds" /\ agents' = agents /\ seen' = seen
  BY DEF HoldsForwards, StepIs, Shell
<1>1. CASE \E f \in command[t].left : command' = [command EXCEPT ![t].left = @ \ {f}]
  <2>1. PICK f \in command[t].left : command' = [command EXCEPT ![t].left = @ \ {f}]
    BY <1>1
  <2>2. command[t].left \in SUBSET CmdAgents
    BY ItsAgent DEF CmdRecords
  <2>3. PICK l \in SUBSET CmdAgents : l = command[t].left \ {f}
    BY <2>2
  <2>4. PICK n : n = [command[t] EXCEPT !.left = l]
    OBVIOUS
  <2>5. command' = [command EXCEPT ![t] = n]
    BY <2>1, <2>3, <2>4 DEF CommandsInv
  <2>6. IsTruthful(n, seen[t], agents)
    BY <1>0, <2>4, ItHolds, ItsAgent
  <2> QED BY <1>0, <2>5, <2>6, ATerminalMoves
<1>2. CASE AllFinished(t) /\ CommandSays(t, "every port forward has stopped")
  <2>1. MaySay(command[t], "every port forward has stopped", seen[t])
    BY <1>2 DEF MaySay, AllFinished
  <2> QED BY <1>0, <1>2, <2>1, ATerminalSays DEF CmdWords, SaidOfWhatIsSeen
<1>3. CASE CommandSays(t, "interrupted")
  BY <1>0, <1>3, ATerminalSaysLittle DEF SaidAnytime
<1> QED BY <1>1, <1>2, <1>3 DEF HoldsForwards

\* The command in the sandbox has exited.
LEMMA ItExits ==
  ASSUME NEW k, NEW s, NEW A, IsTruthful(k, s, A), NEW code \in Int, NEW said,
         said = "failure" \/ (said = "success" /\ code = 0),
         NEW n, n = [k EXCEPT !.step = "shell", !.code = code, !.said = said]
  PROVE IsTruthful(n, s, A)
<1>1. k \in CmdRecords
  BY DEF IsTruthful
<1>2. said \in CmdWords
  BY DEF CmdWords, SaidAnytime, SaidOfWhatIsSeen
<1>3. /\ n \in CmdRecords /\ n.step = "shell" /\ n.said = said /\ n.code = code /\ n.agent = k.agent /\ n.shown = k.shown
  BY <1>1, <1>2 DEF CmdRecords, CommandSteps
<1>4. n.fresh = k.fresh
  BY <1>1, ZenonT(60) DEF CmdRecords
<1>5. MaySay(n, said, s)
  BY <1>3 DEF MaySay
<1>6. MayBeAt(n, "shell", s, A)
  BY DEF MayBeAt, Asking
<1>7. n.fresh => n.shown = Rendering(A, n.agent)
  BY <1>3, <1>4 DEF IsTruthful
<1> QED BY <1>3, <1>5, <1>6, <1>7, ZenonT(60) DEF IsTruthful

LEMMA StreamsExecutionTells ==
  ASSUME CommandsInv, NEW t \in Terminals, StreamsExecution(t)
  PROVE CommandsInv'
<1>0. agents' = agents /\ seen' = seen
  BY DEF StreamsExecution, Shell
<1>1. CASE CommandSays(t, "failed")
  BY <1>0, <1>1, ATerminalSaysLittle DEF SaidAnytime
<1>2. CASE \E code \in {0, 1, 256} :
             command' = [command EXCEPT ![t].step = "shell", ![t].code = code,
                             ![t].said = IF exit_code(code) = 0 THEN "success" ELSE "failure"]
  <2>1. PICK code, said : /\ code \in Int /\ (said = "failure" \/ (said = "success" /\ code = 0))
                          /\ command' = [command EXCEPT ![t].step = "shell", ![t].code = code, ![t].said = said]
    <3>1. PICK c \in {0, 1, 256} :
             command' = [command EXCEPT ![t].step = "shell", ![t].code = c,
                             ![t].said = IF exit_code(c) = 0 THEN "success" ELSE "failure"]
      BY <1>2
    <3>2. PICK w : w = IF exit_code(c) = 0 THEN "success" ELSE "failure"
      OBVIOUS
    <3>3. c \in Int /\ (exit_code(c) = 0 => c = 0)
      BY DEF exit_code
    <3>4. w = "failure" \/ (w = "success" /\ c = 0)
      BY <3>2, <3>3
    <3>5. command' = [command EXCEPT ![t].step = "shell", ![t].code = c, ![t].said = w]
      BY <3>1, <3>2
    <3> QED BY <3>3, <3>4, <3>5, ZenonT(60)
  <2>2. PICK n : n = [command[t] EXCEPT !.step = "shell", !.code = code, !.said = said]
    OBVIOUS
  <2>3. command' = [command EXCEPT ![t] = n]
    <3>1. command \in [Terminals -> CmdRecords]
      BY DEF CommandsInv
    <3> QED BY <2>1, <2>2, <3>1
  <2>4. IsTruthful(n, seen[t], agents)
    BY <2>1, <2>2, ItExits, ItsAgent
  <2>5. agents' = agents /\ seen' = seen
    BY <1>0
  <2> QED BY <2>3, <2>4, <2>5, ATerminalMoves
<1> QED BY <1>1, <1>2 DEF StreamsExecution

LEMMA AsksToWatchTells ==
  ASSUME CommandsInv, NEW t \in Terminals, AsksToWatch(t)
  PROVE CommandsInv'
<1>0. command[t].step = "asks" /\ agents' = agents /\ seen' = seen
  BY DEF AsksToWatch, StepIs, Shell
<1>1. CASE CommandSays(t, "failed")
  BY <1>0, <1>1, ATerminalSaysLittle DEF SaidAnytime
<1>2. CASE Goes_(t, "connects")
  <2>1. command[t].agent \in CmdAgents /\ command[t].recorded = {}
    BY <1>0, ItsAgent DEF MayBeAt, Asking
  <2>2. MayBeAt(command[t], "connects", seen[t], agents)
    BY <2>1 DEF MayBeAt, Asking
  <2> QED BY <1>0, <1>2, <2>2, ATerminalGoes DEF CommandSteps
<1> QED BY <1>1, <1>2 DEF AsksToWatch

LEMMA ChecksBuildTells ==
  ASSUME CommandsInv, NEW t \in Terminals, ChecksBuild(t)
  PROVE CommandsInv'
<1>0. command[t].step = "connects" /\ agents' = agents /\ seen' = seen
  BY DEF ChecksBuild, StepIs, Shell
<1>1. CASE CommandSays(t, "incompatible")
  BY <1>0, <1>1, ATerminalSaysLittle DEF SaidAnytime
<1>2. CASE Goes_(t, "polls")
  <2>1. command[t].agent \in CmdAgents /\ command[t].recorded = {}
    BY <1>0, ItsAgent DEF MayBeAt, Asking
  <2>2. MayBeAt(command[t], "polls", seen[t], agents)
    BY <2>1 DEF MayBeAt, Asking
  <2> QED BY <1>0, <1>2, <2>2, ATerminalGoes DEF CommandSteps
<1> QED BY <1>1, <1>2 DEF ChecksBuild

\* A watch shows its agent as it is.
LEMMA ItShows ==
  ASSUME NEW k, NEW s, NEW A, IsTruthful(k, s, A), k.step = "polls", NEW shown \in SUBSET (RunStates \X BOOLEAN),
         shown = Rendering(A, k.agent), NEW n, n = [k EXCEPT !.step = "connects", !.fresh = TRUE, !.shown = shown]
  PROVE IsTruthful(n, s, A)
<1>1. k \in CmdRecords /\ k.said = "nothing" /\ k.recorded = {} /\ k.agent \in CmdAgents
  BY DEF IsTruthful, MayBeAt, Asking
<1>2. /\ n.step = "connects" /\ n.said = k.said /\ n.agent = k.agent /\ n.recorded = k.recorded /\ n.shown = shown
  BY <1>1 DEF CmdRecords
<1>3. n \in CmdRecords
  <2>1. "connects" \in CommandSteps
    BY DEF CommandSteps
  <2> QED BY <1>1, <2>1, ZenonT(60) DEF CmdRecords
<1>4. MaySay(n, n.said, s)
  BY <1>1, <1>2 DEF MaySay
<1>5. MayBeAt(n, "connects", s, A)
  BY <1>1, <1>2 DEF MayBeAt, Asking
<1>6. n.shown = Rendering(A, n.agent)
  BY <1>2
<1>7. n.step # "shell" => n.said = "nothing"
  BY <1>1, <1>2
<1> QED BY <1>2, <1>3, <1>4, <1>5, <1>6, <1>7, ZenonT(60) DEF IsTruthful

LEMMA WatchesTells ==
  ASSUME CommandsInv, NEW t \in Terminals, Watches(t)
  PROVE CommandsInv'
<1>0. command[t].step = "polls" /\ agents' = agents /\ seen' = seen
  BY DEF Watches, StepIs, Shell
<1>1. command[t].agent \in CmdAgents /\ command[t].recorded = {} /\ agents \in CmdAgentStates
  BY <1>0, ItsAgent DEF MayBeAt, Asking
<1>2. CASE Goes_(t, "connects")
  <2>1. MayBeAt(command[t], "connects", seen[t], agents)
    BY <1>1 DEF MayBeAt, Asking
  <2> QED BY <1>0, <1>2, <2>1, ATerminalGoes DEF CommandSteps
<1>3. CASE command' = [command EXCEPT ![t].step = "connects", ![t].fresh = TRUE, ![t].shown = Shows(t)]
  <2>1. PICK shown : shown = Rendering(agents, command[t].agent)
    OBVIOUS
  <2>2. shown \in SUBSET (RunStates \X BOOLEAN)
    <3>1. \E x \in CmdAgentState : x = agents[command[t].agent]
      BY <1>1 DEF CmdAgentStates
    <3>2. PICK x \in CmdAgentState : shown = IF x.exists THEN {<<x.run, x.done>>} ELSE {}
      BY <2>1, <3>1, ZenonT(60) DEF Rendering
    <3>3. x.run \in RunStates
      BY DEF CmdAgentState
    <3>4. x.done \in BOOLEAN
      BY ZenonT(60) DEF CmdAgentState
    <3>5. PICK d \in BOOLEAN : d = x.done
      BY <3>4, ZenonT(60)
    <3>6. shown = IF x.exists THEN {<<x.run, d>>} ELSE {}
      BY <3>2, <3>5, ZenonT(60)
    <3> QED BY <3>3, <3>6
  <2>3. shown = Shows(t)
    BY <2>1 DEF Shows, render, Rendering
  <2>4. PICK n : n = [command[t] EXCEPT !.step = "connects", !.fresh = TRUE, !.shown = shown]
    OBVIOUS
  <2>5. command' = [command EXCEPT ![t].step = "connects", ![t].fresh = TRUE, ![t].shown = shown]
    BY <1>3, <2>3
  <2>6. command' = [command EXCEPT ![t] = n]
    BY <2>4, <2>5 DEF CommandsInv
  <2>7. IsTruthful(n, seen[t], agents)
    BY <1>0, <2>1, <2>2, <2>4, ItShows, ItsAgent
  <2> QED BY <1>0, <2>6, <2>7, ATerminalMoves
<1> QED BY <1>2, <1>3, ZenonT(60) DEF Watches

LEMMA SettlesTells ==
  ASSUME CommandsInv, NEW a \in CmdAgents, Settles(a)
  PROVE CommandsInv'
<1> DEFINE x == [agents[a] EXCEPT !.done = TRUE]
<1>0. agents \in CmdAgentStates /\ agents[a] \in CmdAgentState
  BY DEF CommandsInv, CmdAgentStates
<1>1. x \in CmdAgentState
  BY <1>0, ZenonT(60) DEF CmdAgentState
<1>2. x.run = agents[a].run /\ x.run \in RunStates
  BY <1>0 DEF CmdAgentState
<1>3. agents' = [agents EXCEPT ![a] = x]
  BY <1>0 DEF Settles, CmdAgentStates
<1> HIDE DEF x
<1>4. agents' \in CmdAgentStates /\ \A b \in CmdAgents : agents'[b] = IF b = a THEN x ELSE agents[b]
  BY <1>0, <1>1, <1>3 DEF CmdAgentStates
<1>5. \A t \in Terminals :
        seen'[t] = IF command[t].step # "shell" /\ (a = command[t].agent \/ a \in command[t].recorded)
                   THEN seen[t] \cup {<<a, x.run>>} ELSE seen[t]
  BY <1>2, ZenonT(60) DEF Settles
<1>6. seen' \in [Terminals -> SUBSET (CmdAgents \X RunStates)]
  <2>1. seen \in [Terminals -> SUBSET (CmdAgents \X RunStates)]
    BY DEF CommandsInv
  <2>2. ASSUME NEW t \in Terminals PROVE seen'[t] \in SUBSET (CmdAgents \X RunStates)
    <3>1. PICK y \in RunStates : y = x.run
      BY <1>2
    <3>2. seen[t] \in SUBSET (CmdAgents \X RunStates) /\ {<<a, y>>} \in SUBSET (CmdAgents \X RunStates)
      BY <2>1
    <3>3. seen'[t] = seen[t] \cup {<<a, y>>} \/ seen'[t] = seen[t]
      BY <1>5, <3>1
    <3> QED BY <3>2, <3>3
  <2>3. seen' = [t \in Terminals |-> seen'[t]]
    BY ZenonT(60) DEF Settles
  <2> QED BY <2>2, <2>3
<1>7. ASSUME NEW t \in Terminals
      PROVE IsTruthful(command'[t], seen'[t], agents')
  <2>1. PICK o : o = Told(command[t])
    OBVIOUS
  <2>2. command'[t] = o
    BY <2>1 DEF Settles, NoLongerFresh, Told
  <2>3. \A b \in CmdAgents : NoFurther(agents[b], agents[b])
    BY DEF NoFurther
  <2>4. IsTruthful(o, seen[t], agents) /\ SameWork(o, command[t])
    BY <2>1, <2>3, ItsAgent, ToldStayTruthful
  <2>5. o.fresh = FALSE
    BY <2>1, ItIsOld, ItsAgent DEF Told
  <2>6. o.step = command[t].step /\ o.agent = command[t].agent /\ o.recorded = command[t].recorded
    BY <2>4 DEF SameWork
  <2>7. seen[t] \subseteq seen'[t]
    BY <1>5
  <2>8. ASSUME NEW b \in CmdAgents
        PROVE \/ agents'[b].exists /\ agents'[b].done =>
                     agents[b].exists /\ agents[b].done /\ agents'[b].run = agents[b].run
              \/ o.step # "shell" /\ (b = o.agent \/ b \in o.recorded) => <<b, agents'[b].run>> \in seen'[t]
    <3>1. CASE b # a
      BY <1>4, <3>1
    <3>2. CASE b = a
      BY <1>4, <1>5, <2>6, <3>2
    <3> QED BY <3>1, <3>2
  <2>9. IsTruthful(o, seen'[t], agents')
    BY <2>4, <2>5, <2>7, <2>8, AgentsMove
  <2> QED BY <2>2, <2>9
<1>8. command' \in [Terminals -> CmdRecords]
  <2>1. \A t \in Terminals : command'[t] \in CmdRecords
    BY <1>7 DEF IsTruthful
  <2>2. command' = [t \in Terminals |-> command'[t]]
    BY DEF Settles, NoLongerFresh
  <2> QED BY <2>1, <2>2
<1> QED BY <1>4, <1>6, <1>7, <1>8, ZenonT(60) DEF CommandsInv

LEMMA DaemonEndsTells ==
  ASSUME CommandsInv, DaemonEnds
  PROVE CommandsInv'
<1>1. agents' = agents /\ seen' = seen /\ command' = NoLongerFresh(command)
  BY DEF DaemonEnds
<1>2. /\ agents \in CmdAgentStates /\ seen \in [Terminals -> SUBSET (CmdAgents \X RunStates)]
      /\ \A u \in Terminals : IsTruthful(command[u], seen[u], agents)
  BY DEF CommandsInv
<1> QED BY <1>1, <1>2, AllAreTold

\* One daemon has the home's lock, the one that serves has it, and a terminal's own one that has it is alive.
LEMMA DaemonsStep ==
  ASSUME DaemonsInv, [CommandNext]_cliVars
  PROVE DaemonsInv'
<1>1. CASE UNCHANGED <<agentd, lockedBy, spawn>>
  BY <1>1 DEF DaemonsInv
<1>2. ASSUME NEW t \in Terminals, EnsuresDaemon(t)
      PROVE DaemonsInv'
  <2>1. agentd' = agentd /\ lockedBy' = lockedBy /\ (spawn' = spawn \/ spawn' = [spawn EXCEPT ![t] = "alive"])
    BY <1>2 DEF EnsuresDaemon
  <2> QED BY <2>1 DEF DaemonsInv
<1>3. ASSUME NEW t \in Terminals, TakesHomeLock(t)
      PROVE DaemonsInv'
  <2>1. agentd' = agentd /\ spawn' = spawn /\ lockedBy' = t /\ spawn[t] = "alive" /\ t # "nobody"
    BY <1>3, CommandLineConstants DEF TakesHomeLock
  <2> QED BY <2>1 DEF DaemonsInv
<1>4. ASSUME NEW t \in Terminals, FailsToLock(t)
      PROVE DaemonsInv'
  <2>1. agentd' = agentd /\ lockedBy' = lockedBy /\ spawn' = [spawn EXCEPT ![t] = "exited"] /\ lockedBy # t
    BY <1>4 DEF FailsToLock
  <2> QED BY <2>1 DEF DaemonsInv
<1>5. ASSUME NEW t \in Terminals, ServesHome(t)
      PROVE DaemonsInv'
  <2>1. /\ agentd' = [serves |-> TRUE, build |-> "ours"] /\ lockedBy' = lockedBy /\ spawn' = spawn /\ lockedBy = t
        /\ t # "nobody"
    BY <1>5, CommandLineConstants DEF ServesHome
  <2>2. agentd' \in [serves : BOOLEAN, build : {"ours", "other"}]
    BY <2>1
  <2> QED BY <2>1, <2>2 DEF DaemonsInv
<1>6. ASSUME DaemonEnds
      PROVE DaemonsInv'
  <2>1. spawn' = [t \in Terminals |-> IF lockedBy = t THEN "exited" ELSE spawn[t]]
    BY <1>6 DEF DaemonEnds
  <2>2. \/ agentd' = [agentd EXCEPT !.serves = FALSE] /\ lockedBy' = "nobody"
        \/ agentd' = [serves |-> TRUE, build |-> "other"] /\ lockedBy' = "outside"
    BY <1>6 DEF DaemonEnds
  <2>3. agentd' \in [serves : BOOLEAN, build : {"ours", "other"}] /\ (agentd'.serves => lockedBy' # "nobody")
    <3>1. CASE agentd' = [agentd EXCEPT !.serves = FALSE] /\ lockedBy' = "nobody"
      <4>1. agentd \in [serves : BOOLEAN, build : {"ours", "other"}]
        BY DEF DaemonsInv
      <4>2. agentd' \in [serves : BOOLEAN, build : {"ours", "other"}] /\ agentd'.serves = FALSE
        BY <3>1, <4>1, ZenonT(60)
      <4> QED BY <4>2
    <3>2. CASE agentd' = [serves |-> TRUE, build |-> "other"] /\ lockedBy' = "outside"
      BY <3>2
    <3> QED BY <2>2, <3>1, <3>2
  <2>4. spawn' \in [Terminals -> {"none", "alive", "exited"}]
    BY <2>1 DEF DaemonsInv
  <2>5. lockedBy' \in {"nobody", "outside"} /\ lockedBy' \notin Terminals
    BY <2>2, CommandLineConstants
  <2> QED BY <2>3, <2>4, <2>5 DEF DaemonsInv
<1>7. ASSUME NEW t \in Terminals,
             \/ \E l \in CommandLines : EntersLine(t, l)
             \/ AwaitsDaemon(t) \/ ResolvesAgent(t) \/ AsksForChange(t) \/ AsksOnce(t) \/ Converges(t) \/ TimesOut(t)
             \/ ListsRunning(t) \/ ConfirmsDelete(t) \/ PassesDeadline(t) \/ CountsStopped(t)
             \/ \E a \in CmdAgents : RecordsStop(t, a) \/ WaitsForStop(t, a)
             \/ EnsuresReady(t) \/ ReadyTarget(t) \/ HoldsForwards(t) \/ CreateTimesOut(t) \/ StreamsExecution(t)
             \/ AsksToWatch(t) \/ ChecksBuild(t) \/ Watches(t)
      PROVE UNCHANGED <<agentd, lockedBy, spawn>>
  <2>1. CASE \E l \in CommandLines : EntersLine(t, l)
    BY <2>1 DEF EntersLine, Shell
  <2>2. CASE AwaitsDaemon(t) \/ ResolvesAgent(t) \/ AsksForChange(t) \/ AsksOnce(t) \/ Converges(t) \/ TimesOut(t)
    BY <2>2, ZenonT(60) DEF AwaitsDaemon, ResolvesAgent, AsksForChange, AsksOnce, Converges, TimesOut, Shell
  <2>3. CASE ListsRunning(t) \/ ConfirmsDelete(t) \/ PassesDeadline(t) \/ CountsStopped(t)
    BY <2>3, ZenonT(60) DEF ListsRunning, ConfirmsDelete, PassesDeadline, CountsStopped, Shell
  <2>4. CASE \E a \in CmdAgents : RecordsStop(t, a) \/ WaitsForStop(t, a)
    BY <2>4, ZenonT(60) DEF RecordsStop, WaitsForStop, Shell
  <2>5. CASE EnsuresReady(t) \/ ReadyTarget(t) \/ HoldsForwards(t) \/ CreateTimesOut(t) \/ StreamsExecution(t)
    BY <2>5, ZenonT(60) DEF EnsuresReady, ReadyTarget, HoldsForwards, CreateTimesOut, StreamsExecution, Shell
  <2>6. CASE AsksToWatch(t) \/ ChecksBuild(t) \/ Watches(t)
    BY <2>6, ZenonT(60) DEF AsksToWatch, ChecksBuild, Watches, Shell
  <2> QED BY <1>7, <2>1, <2>2, <2>3, <2>4, <2>5, <2>6, ZenonT(60)
<1>8. CASE UNCHANGED cliVars
  BY <1>1, <1>8 DEF cliVars
<1>9. ASSUME NEW a \in CmdAgents, Settles(a)
      PROVE UNCHANGED <<agentd, lockedBy, spawn>>
  BY <1>9 DEF Settles
<1> QED BY <1>1, <1>2, <1>3, <1>4, <1>5, <1>6, <1>7, <1>8, <1>9, ZenonT(60) DEF CommandNext

LEMMA CommandsStep ==
  ASSUME CommandsInv, [CommandNext]_cliVars
  PROVE CommandsInv'
<1>1. CASE UNCHANGED cliVars
  BY <1>1 DEF cliVars, CommandsInv
<1>2. ASSUME NEW t \in Terminals, TakesHomeLock(t) \/ FailsToLock(t) \/ ServesHome(t)
      PROVE CommandsInv'
  <2>1. UNCHANGED <<agents, command, seen>>
    BY <1>2 DEF TakesHomeLock, FailsToLock, ServesHome
  <2> QED BY <2>1 DEF CommandsInv
<1>3. ASSUME NEW t \in Terminals, NEW entered \in CommandLines, EntersLine(t, entered)
      PROVE CommandsInv'
  BY <1>3, EntersLineTells
<1>4. ASSUME NEW t \in Terminals, NEW a \in CmdAgents, RecordsStop(t, a) \/ WaitsForStop(t, a)
      PROVE CommandsInv'
  BY <1>4, RecordsStopTells, WaitsForStopTells
<1>5. ASSUME NEW t \in Terminals,
             EnsuresDaemon(t) \/ AwaitsDaemon(t) \/ ResolvesAgent(t) \/ AsksForChange(t) \/ AsksOnce(t)
      PROVE CommandsInv'
  BY <1>5, EnsuresDaemonTells, AwaitsDaemonTells, ResolvesAgentTells, AsksForChangeTells, AsksOnceTells
<1>6. ASSUME NEW t \in Terminals,
             Converges(t) \/ TimesOut(t) \/ ListsRunning(t) \/ ConfirmsDelete(t) \/ PassesDeadline(t) \/ CountsStopped(t)
      PROVE CommandsInv'
  BY <1>6, ConvergesTells, TimesOutTells, ListsRunningTells, ConfirmsDeleteTells, PassesDeadlineTells, CountsStoppedTells
<1>7. ASSUME NEW t \in Terminals,
             \/ EnsuresReady(t) \/ ReadyTarget(t) \/ HoldsForwards(t) \/ CreateTimesOut(t) \/ StreamsExecution(t)
             \/ AsksToWatch(t) \/ ChecksBuild(t) \/ Watches(t)
      PROVE CommandsInv'
  BY <1>7, EnsuresReadyTells, ReadyTargetTells, HoldsForwardsTells, TimesOutTells, StreamsExecutionTells,
     AsksToWatchTells, ChecksBuildTells, WatchesTells
<1>8. ASSUME DaemonEnds \/ \E a \in CmdAgents : Settles(a)
      PROVE CommandsInv'
  BY <1>8, DaemonEndsTells, SettlesTells
<1> QED BY <1>1, <1>2, <1>3, <1>4, <1>5, <1>6, <1>7, <1>8, ZenonT(60) DEF CommandNext

LEMMA CommandsStart ==
  ASSUME CommandInit
  PROVE CliInv
<1>1. agents \in CmdAgentStates
  <2>1. "Running" \in RunStates /\ "Stopped" \in RunStates
    BY DEF RunStates
  <2>2. agents \in [CmdAgents -> [exists : {TRUE}, run : {"Running", "Stopped"}, done : {TRUE}]]
    BY DEF CommandInit
  <2>3. \A x \in [exists : {TRUE}, run : {"Running", "Stopped"}, done : {TRUE}] : x \in CmdAgentState
    BY ZenonT(60) DEF CmdAgentState, RunStates
  <2> QED BY <2>2, <2>3 DEF CmdAgentStates
<1>2. NoCommand \in CmdRecords
  <2>1. "shell" \in CommandSteps /\ {} \in SUBSET CmdAgents /\ {} \in SUBSET (RunStates \X BOOLEAN) /\ 0 \in Int
        /\ "nothing" \in CmdWords
    BY DEF CommandSteps, CmdWords
  <2>2. NoCommand.line \in CmdLine /\ NoCommand.line.on = "none"
    BY DEF CmdLine, NoCommand
  <2>3. "none" \in CmdAgents \cup {l.on : l \in CmdLine}
    BY <2>2
  <2>4. NoCommand = [step |-> "shell", said |-> "nothing", line |-> NoCommand.line, agent |-> "none", listed |-> {},
                     left |-> {}, recorded |-> {}, failed |-> {}, shown |-> {}, fresh |-> FALSE, late |-> FALSE,
                     code |-> 0, port |-> FALSE]
    BY DEF NoCommand
  <2>5. PICK l \in CmdLine : l = NoCommand.line
    BY <2>2
  <2>6. NoCommand = [step |-> "shell", said |-> "nothing", line |-> l, agent |-> "none", listed |-> {},
                     left |-> {}, recorded |-> {}, failed |-> {}, shown |-> {}, fresh |-> FALSE, late |-> FALSE,
                     code |-> 0, port |-> FALSE]
    BY <2>4, <2>5
  <2> QED BY <2>1, <2>3, <2>6, ZenonT(60) DEF CmdRecords
<1>3. ASSUME NEW s PROVE IsTruthful(NoCommand, s, agents)
  <2>1. NoCommand.step = "shell" /\ NoCommand.said = "nothing" /\ NoCommand.fresh = FALSE
    BY DEF NoCommand
  <2>2. MaySay(NoCommand, "nothing", s)
    BY DEF MaySay
  <2>3. MayBeAt(NoCommand, "shell", s, agents)
    BY DEF MayBeAt, Asking
  <2> QED BY <1>2, <2>1, <2>2, <2>3, ZenonT(60) DEF IsTruthful
<1>4. command = [t \in Terminals |-> NoCommand] /\ seen = [t \in Terminals |-> {}]
  BY DEF CommandInit
<1>5. /\ command \in [Terminals -> CmdRecords] /\ seen \in [Terminals -> SUBSET (CmdAgents \X RunStates)]
      /\ \A t \in Terminals : command[t] = NoCommand
  BY <1>2, <1>4
<1>6. CommandsInv
  BY <1>1, <1>3, <1>5, ZenonT(60) DEF CommandsInv
<1>7. DaemonsInv
  <2>1. agentd \in [serves : BOOLEAN, build : {"ours"}]
    BY DEF CommandInit
  <2>2. agentd \in [serves : BOOLEAN, build : {"ours", "other"}]
    BY <2>1
  <2>3. lockedBy = (IF agentd.serves THEN "outside" ELSE "nobody") /\ spawn = [t \in Terminals |-> "none"]
    BY DEF CommandInit
  <2>4. lockedBy \in {"nobody", "outside"} /\ lockedBy \notin Terminals
    BY <2>3, CommandLineConstants
  <2> QED BY <2>2, <2>3, <2>4 DEF DaemonsInv
<1> QED BY <1>6, <1>7 DEF CliInv

LEMMA CommandsAreTrue ==
  ASSUME CliInv
  PROVE CommandsTellTheTruth
<1>1. /\ agents \in CmdAgentStates /\ command \in [Terminals -> CmdRecords]
      /\ seen \in [Terminals -> SUBSET (CmdAgents \X RunStates)]
      /\ \A t \in Terminals : IsTruthful(command[t], seen[t], agents)
      /\ DaemonsInv
  BY DEF CliInv, CommandsInv
<1>2. CommandTypeOK
  <2>1. \A t \in Terminals : command[t].step \in CommandSteps
    BY <1>1 DEF CmdRecords
  <2>2. \A t \in Terminals : spawn[t] \in {"none", "alive", "exited"}
    BY <1>1 DEF DaemonsInv
  <2>3. agents \in [CmdAgents -> [exists : BOOLEAN, run : {"Running", "Stopped"}, done : BOOLEAN]]
    BY <1>1, ZenonT(60) DEF CmdAgentStates, CmdAgentState, RunStates
  <2>4. seen \in [Terminals -> SUBSET (CmdAgents \X {"Running", "Stopped"})]
    BY <1>1, ZenonT(60) DEF RunStates
  <2>5. /\ agentd \in [serves : BOOLEAN, build : {"ours", "other"}] /\ lockedBy \in Terminals \cup {"nobody", "outside"}
        /\ agentd.serves => lockedBy # "nobody"
        /\ \A t \in Terminals : lockedBy = t => spawn[t] = "alive"
    BY <1>1, ZenonT(60) DEF DaemonsInv
  <2> QED BY <2>1, <2>2, <2>3, <2>4, <2>5, ZenonT(60) DEF CommandTypeOK
<1>3. \A t \in Terminals : MaySay(command[t], command[t].said, seen[t])
  BY <1>1, ZenonT(60) DEF IsTruthful
<1>4. SaysWhatItSaw
  BY <1>3, ZenonT(60) DEF SaysWhatItSaw, MaySay
<1>5. ExitTellsTheGuests
  BY <1>3, ZenonT(60) DEF ExitTellsTheGuests, MaySay
<1>6. HeldToTheLast
  BY <1>3, ZenonT(60) DEF HeldToTheLast, MaySay
<1>7. RefusedDesktopHasNoViewer
  BY <1>3, ZenonT(60) DEF RefusedDesktopHasNoViewer, MaySay
<1>8. WatchShowsTheState
  <2>1. \A t \in Terminals : command[t].fresh => command[t].shown = Rendering(agents, command[t].agent)
    BY <1>1, ZenonT(60) DEF IsTruthful
  <2>2. \A t \in Terminals : Rendering(agents, command[t].agent) = render(t)
    BY DEF Rendering, render
  <2> QED BY <2>1, <2>2, ZenonT(60) DEF WatchShowsTheState
<1> QED BY <1>2, <1>4, <1>5, <1>6, <1>7, <1>8 DEF CommandsTellTheTruth

\* What a command says is something it saw after it was entered, whatever other commands, agentd and an upgrade
\* did meanwhile: a stop, a start or a ready agent was so at a moment since, every agent of a list was stopped,
\* success is the guest's exit code, forwards are held to the last one, and a watch that waits shows the current
\* state (bin/agentctl/main.rs, watch.rs).
THEOREM CommandsStayTruthful == CommandSpec => []CommandsTellTheTruth
<1>1. CommandInit => CliInv
  BY CommandsStart
<1>2. CliInv /\ [CommandNext]_cliVars => CliInv'
  BY DaemonsStep, CommandsStep DEF CliInv
<1>3. CliInv => CommandsTellTheTruth
  BY CommandsAreTrue
<1> QED BY <1>1, <1>2, <1>3, PTL DEF CommandSpec

\* A command moves only its own terminal's step.
LEMMA OthersStay ==
  ASSUME CommandsInv, NEW t \in Terminals, NEW u \in Terminals, u # t, NEW k, NEW C,
         C = command \/ C = NoLongerFresh(command), command' = [C EXCEPT ![t] = k]
  PROVE command'[u].step = command[u].step
<1>1. command \in [Terminals -> CmdRecords] /\ command[u] \in CmdRecords
  BY DEF CommandsInv
<1>2. C[u].step = command[u].step
  <2>1. CASE C = command
    BY <2>1
  <2>2. CASE C = NoLongerFresh(command)
    <3>1. C[u] = [command[u] EXCEPT !.fresh = FALSE]
      BY <2>2 DEF NoLongerFresh
    <3> QED BY <1>1, <3>1, OldKeeps
  <2> QED BY <2>1, <2>2
<1>3. command'[u] = C[u]
  BY <1>1 DEF NoLongerFresh
<1> QED BY <1>2, <1>3

\* What a terminal's command does leaves the other ones at their steps.
LEMMA StepsOfOthers ==
  ASSUME CommandsInv, NEW t \in Terminals, NEW u \in Terminals, u # t,
         \/ \E l \in CommandLines : EntersLine(t, l)
         \/ EnsuresDaemon(t) \/ AwaitsDaemon(t) \/ TakesHomeLock(t) \/ FailsToLock(t) \/ ServesHome(t)
         \/ ResolvesAgent(t) \/ AsksForChange(t) \/ AsksOnce(t) \/ Converges(t) \/ TimesOut(t)
         \/ ListsRunning(t) \/ ConfirmsDelete(t) \/ PassesDeadline(t) \/ CountsStopped(t)
         \/ \E a \in CmdAgents : RecordsStop(t, a) \/ WaitsForStop(t, a)
         \/ EnsuresReady(t) \/ ReadyTarget(t) \/ HoldsForwards(t) \/ CreateTimesOut(t) \/ StreamsExecution(t)
         \/ AsksToWatch(t) \/ ChecksBuild(t) \/ Watches(t)
  PROVE command'[u].step = command[u].step
<1>1. command \in [Terminals -> CmdRecords]
  BY DEF CommandsInv
<1>2. ASSUME NEW x, Goes_(t, x) \/ CommandSays(t, x)
      PROVE command'[u] = command[u]
  BY <1>1, <1>2 DEF Goes_, CommandSays
<1>3. CASE \/ \E l \in CommandLines : EntersLine(t, l)
           \/ TakesHomeLock(t) \/ FailsToLock(t) \/ ServesHome(t) \/ PassesDeadline(t)
           \/ \E a \in CmdAgents : WaitsForStop(t, a)
  BY <1>1, <1>3 DEF EntersLine, TakesHomeLock, FailsToLock, ServesHome, PassesDeadline, WaitsForStop
<1>4. CASE EnsuresDaemon(t) \/ AwaitsDaemon(t)
  <2>1. \E x : Goes_(t, x) \/ CommandSays(t, x)
    BY <1>4, ZenonT(60) DEF EnsuresDaemon, AwaitsDaemon, Greets
  <2> QED BY <1>2, <2>1
<1>5. CASE Converges(t) \/ TimesOut(t) \/ ConfirmsDelete(t) \/ CountsStopped(t) \/ CreateTimesOut(t) \/ AsksToWatch(t) \/ ChecksBuild(t)
  <2>1. \E x : Goes_(t, x) \/ CommandSays(t, x)
    BY <1>5, ZenonT(60) DEF Converges, TimesOut, ConfirmsDelete, CountsStopped, CreateTimesOut, AsksToWatch, ChecksBuild
  <2> QED BY <1>2, <2>1
<1>6. CASE ResolvesAgent(t)
  <2>1. \/ \E x : CommandSays(t, x)
        \/ \E a : command' = [command EXCEPT ![t].step = "asks", ![t].agent = a]
    BY <1>6, ZenonT(60) DEF ResolvesAgent
  <2> QED BY <1>1, <1>2, <2>1
<1>7. CASE ListsRunning(t)
  <2>1. \/ \E x : CommandSays(t, x)
        \/ \E a : command' = [command EXCEPT ![t].step = "confirms", ![t].listed = a, ![t].left = a]
    BY <1>7, ZenonT(60) DEF ListsRunning
  <2> QED BY <1>1, <1>2, <2>1
<1>8. CASE EnsuresReady(t)
  <2>1. \/ \E x : CommandSays(t, x)
        \/ \E p : command' = [command EXCEPT ![t].step = "targets", ![t].port = p]
    BY <1>8, ZenonT(60) DEF EnsuresReady
  <2> QED BY <1>1, <1>2, <2>1
<1>9. CASE HoldsForwards(t)
  <2>1. \/ \E x : CommandSays(t, x)
        \/ \E f : command' = [command EXCEPT ![t].left = @ \ {f}]
    BY <1>9, ZenonT(60) DEF HoldsForwards
  <2> QED BY <1>1, <1>2, <2>1
<1>10. CASE StreamsExecution(t)
  <2>1. CASE CommandSays(t, "failed")
    BY <1>2, <2>1
  <2>2. CASE \E code \in {0, 1, 256} :
               command' = [command EXCEPT ![t].step = "shell", ![t].code = code,
                               ![t].said = IF exit_code(code) = 0 THEN "success" ELSE "failure"]
    <3>1. PICK code \in {0, 1, 256} :
               command' = [command EXCEPT ![t].step = "shell", ![t].code = code,
                               ![t].said = IF exit_code(code) = 0 THEN "success" ELSE "failure"]
      BY <2>2
    <3>2. PICK c, w : c = code /\ w = IF exit_code(code) = 0 THEN "success" ELSE "failure"
      OBVIOUS
    <3>3. command' = [command EXCEPT ![t].step = "shell", ![t].code = c, ![t].said = w]
      BY <3>1, <3>2
    <3> QED BY <1>1, <3>3
  <2> QED BY <1>10, <2>1, <2>2 DEF StreamsExecution
<1>11. CASE Watches(t)
  <2>1. \/ \E x : Goes_(t, x)
        \/ \E f : command' = [command EXCEPT ![t].step = "connects", ![t].fresh = TRUE, ![t].shown = f]
    BY <1>11, ZenonT(60) DEF Watches
  <2> QED BY <1>1, <1>2, <2>1
<1>12. CASE ReadyTarget(t)
  <2>1. command[t].line.op \in InTheSandbox
    <3>1. command[t].step = "targets"
      BY <1>12 DEF ReadyTarget, StepIs
    <3> QED BY <3>1, ItsAgent DEF MayBeAt
  <2>2. CASE CommandSays(t, "failed")
    BY <1>2, <2>2
  <2>3. CASE ~CommandSays(t, "failed")
    <3>1. \/ \E x : Goes_(t, x) \/ CommandSays(t, x)
          \/ \E l : command' = [command EXCEPT ![t].step = "holds", ![t].left = l]
      BY <1>12, <2>1, <2>3 DEF ReadyTarget, InTheSandbox, Op
    <3> QED BY <1>1, <1>2, <3>1
  <2> QED BY <2>2, <2>3
<1>13. CASE AsksForChange(t)
  <2>1. \/ \E x : CommandSays(t, x)
        \/ \E C : (C = command \/ C = NoLongerFresh(command)) /\ command' = [C EXCEPT ![t].step = "converging"]
    <3> DEFINE new == Recorded(command[t].agent, Op(t))
               C == IF new = agents[command[t].agent] THEN command ELSE NoLongerFresh(command)
    <3>1. C = command \/ C = NoLongerFresh(command)
      OBVIOUS
    <3>2. (\E x : CommandSays(t, x)) \/ command' = [C EXCEPT ![t].step = "converging"]
      BY <1>13, ZenonT(60) DEF AsksForChange
    <3> HIDE DEF C
    <3> QED BY <3>1, <3>2
  <2>2. ASSUME NEW C, C = command \/ C = NoLongerFresh(command), command' = [C EXCEPT ![t].step = "converging"]
        PROVE command'[u].step = command[u].step
    <3>1. PICK k : k = [C[t] EXCEPT !.step = "converging"]
      OBVIOUS
    <3>2. command' = [C EXCEPT ![t] = k]
      BY <1>1, <2>2, <3>1 DEF NoLongerFresh
    <3>3. C = command \/ C = NoLongerFresh(command)
      BY <2>2
    <3> QED BY <3>2, <3>3, OthersStay
  <2> QED BY <1>2, <2>1, <2>2
<1>14. CASE AsksOnce(t)
  <2>1. \/ \E x : CommandSays(t, x)
        \/ command' = [NoLongerFresh(command) EXCEPT ![t].step = "shell", ![t].said = "deleted"]
    BY <1>14, ZenonT(60) DEF AsksOnce
  <2>2. ASSUME command' = [NoLongerFresh(command) EXCEPT ![t].step = "shell", ![t].said = "deleted"]
        PROVE command'[u].step = command[u].step
    <3>1. PICK C : C = NoLongerFresh(command)
      OBVIOUS
    <3>2. PICK k : k = [C[t] EXCEPT !.step = "shell", !.said = "deleted"]
      OBVIOUS
    <3>3. command' = [C EXCEPT ![t] = k]
      BY <1>1, <2>2, <3>1, <3>2 DEF NoLongerFresh
    <3> QED BY <3>1, <3>3, OthersStay
  <2> QED BY <1>2, <2>1, <2>2
<1>15. CASE \E a \in CmdAgents : RecordsStop(t, a)
  <2>1. PICK a \in CmdAgents : RecordsStop(t, a)
    BY <1>15
  <2> DEFINE new == Recorded(a, "stop all")
             able == agentd.serves /\ agents[a].exists
             remaining == command[t].left \ {a}
             C == IF able /\ new # agents[a] THEN NoLongerFresh(command) ELSE command
             recorded == command[t].recorded \cup (IF able THEN {a} ELSE {})
             failed == command[t].failed \cup (IF able THEN {} ELSE {a})
             step == IF remaining = {} THEN "waits" ELSE "records"
             rest == IF remaining = {} THEN recorded ELSE remaining
  <2>2. C = command \/ C = NoLongerFresh(command)
    OBVIOUS
  <2>3. command' = [C EXCEPT ![t].recorded = recorded, ![t].failed = failed, ![t].step = step, ![t].left = rest]
    BY <2>1 DEF RecordsStop
  <2> HIDE DEF C, recorded, failed, step, rest
  <2>4. PICK D : D = C
    OBVIOUS
  <2>5. PICK k : k = [D[t] EXCEPT !.recorded = recorded, !.failed = failed, !.step = step, !.left = rest]
    OBVIOUS
  <2>6. command' = [D EXCEPT ![t] = k]
    BY <1>1, <2>2, <2>3, <2>4, <2>5 DEF NoLongerFresh
  <2>7. D = command \/ D = NoLongerFresh(command)
    BY <2>2, <2>4
  <2> QED BY <2>6, <2>7, OthersStay
<1> QED BY <1>3, <1>4, <1>5, <1>6, <1>7, <1>8, <1>9, <1>10, <1>11, <1>12, <1>13, <1>14, <1>15, ZenonT(60)

\* Only its resolution takes a command from the agent of its directory to asking about one.
LEMMA OnlyResolutionResolves ==
  ASSUME CommandsInv, CommandNext, NEW t \in Terminals, command[t].step = "resolves", command'[t].step = "asks"
  PROVE ResolvesAgent(t)
<1>1. command \in [Terminals -> CmdRecords]
  BY DEF CommandsInv
<1>2. ASSUME NEW C, C = NoLongerFresh(command), command' = C
      PROVE FALSE
  <2>1. command'[t] = [command[t] EXCEPT !.fresh = FALSE]
    BY <1>2 DEF NoLongerFresh
  <2> QED BY <1>1, <2>1, OldKeeps
<1>3. ASSUME NEW u \in Terminals,
             \/ \E l \in CommandLines : EntersLine(u, l)
             \/ EnsuresDaemon(u) \/ AwaitsDaemon(u) \/ TakesHomeLock(u) \/ FailsToLock(u) \/ ServesHome(u)
             \/ ResolvesAgent(u) \/ AsksForChange(u) \/ AsksOnce(u) \/ Converges(u) \/ TimesOut(u)
             \/ ListsRunning(u) \/ ConfirmsDelete(u) \/ PassesDeadline(u) \/ CountsStopped(u)
             \/ \E a \in CmdAgents : RecordsStop(u, a) \/ WaitsForStop(u, a)
             \/ EnsuresReady(u) \/ ReadyTarget(u) \/ HoldsForwards(u) \/ CreateTimesOut(u) \/ StreamsExecution(u)
             \/ AsksToWatch(u) \/ ChecksBuild(u) \/ Watches(u)
      PROVE ResolvesAgent(t)
  <2>1. u = t
    <3>1. CASE u # t
      <4>1. command'[t].step = command[t].step
        BY <1>3, <3>1, StepsOfOthers
      <4> QED BY <4>1
    <3> QED BY <3>1
  <2>2. ~CreateTimesOut(t)
    <3>1. CASE CreateTimesOut(t)
      <4>1. command' = [command EXCEPT ![t].step = "shell", ![t].said = "timed out"]
        BY <3>1 DEF CreateTimesOut, CommandSays
      <4>2. command'[t].step = "shell"
        BY <1>1, <4>1 DEF CmdRecords
      <4> QED BY <4>2
    <3> QED BY <3>1
  <2>3. /\ \A l \in CommandLines : ~EntersLine(t, l)
        /\ ~EnsuresDaemon(t) /\ ~AwaitsDaemon(t) /\ ~AsksForChange(t) /\ ~AsksOnce(t) /\ ~Converges(t) /\ ~TimesOut(t)
        /\ ~ListsRunning(t) /\ ~ConfirmsDelete(t) /\ ~PassesDeadline(t) /\ ~CountsStopped(t)
    BY DEF EntersLine, EnsuresDaemon, AwaitsDaemon, AsksForChange, AsksOnce, Converges, TimesOut, ListsRunning,
           ConfirmsDelete, PassesDeadline, CountsStopped, StepIs
  <2>4. /\ \A a \in CmdAgents : ~RecordsStop(t, a) /\ ~WaitsForStop(t, a)
        /\ ~EnsuresReady(t) /\ ~ReadyTarget(t) /\ ~HoldsForwards(t) /\ ~StreamsExecution(t)
        /\ ~AsksToWatch(t) /\ ~ChecksBuild(t) /\ ~Watches(t)
    BY DEF RecordsStop, WaitsForStop, EnsuresReady, ReadyTarget, HoldsForwards, StreamsExecution, AsksToWatch,
           ChecksBuild, Watches, StepIs
  <2>5. ~TakesHomeLock(t) /\ ~FailsToLock(t) /\ ~ServesHome(t)
    <3>1. command' # command
      BY ZenonT(60)
    <3> QED BY <3>1, ZenonT(60) DEF TakesHomeLock, FailsToLock, ServesHome
  <2> QED BY <1>3, <2>1, <2>2, <2>3, <2>4, <2>5, ZenonT(60)
<1>4. ASSUME DaemonEnds \/ \E a \in CmdAgents : Settles(a)
      PROVE FALSE
  BY <1>2, <1>4 DEF DaemonEnds, Settles
<1> QED BY <1>3, <1>4, ZenonT(60) DEF CommandNext

\* The one agent a command is resolved to is the closest, and one as close was set aside for its file.
LEMMA TheOneIsTheClosest ==
  ASSUME NEW variant, NEW a, resolve_directory_variant(variant) = {a}
  PROVE /\ a \in Associated /\ \A b \in Associated : assoc[b].depth <= assoc[a].depth
        /\ variant # "none" => assoc[a].leaf = variant
        /\ \A b \in Associated \ {a} : assoc[b].depth = assoc[a].depth =>
               assoc[b].leaf # assoc[a].leaf /\ (variant = "none" => assoc[a].leaf = "agent.yaml")
<1> DEFINE named == IF variant = "none" THEN Closest ELSE {b \in Closest : assoc[b].leaf = variant}
           defaults == {b \in named : assoc[b].leaf = "agent.yaml"}
<1>1. {a} = named \/ (variant = "none" /\ {a} = defaults)
  BY DEF resolve_directory_variant
<1>2. a \in Closest /\ (variant # "none" => assoc[a].leaf = variant)
  BY <1>1
<1>3. a \in Associated /\ \A b \in Associated : assoc[b].depth <= assoc[a].depth
  BY <1>2, ZenonT(60) DEF Closest
<1>4. ASSUME NEW b \in Associated \ {a}, assoc[b].depth = assoc[a].depth
      PROVE b \in Closest /\ b # a
  BY <1>3, <1>4, ZenonT(60) DEF Closest
<1>5. ASSUME NEW b \in Associated \ {a}, assoc[b].depth = assoc[a].depth
      PROVE assoc[b].leaf # assoc[a].leaf /\ (variant = "none" => assoc[a].leaf = "agent.yaml")
  <2>1. b \in Closest /\ b # a
    BY <1>4, <1>5
  <2>2. CASE variant # "none"
    BY <1>1, <1>2, <2>1, <2>2
  <2>3. CASE variant = "none"
    <3>1. {a} # named
      BY <2>1, <2>3
    <3>2. {a} = defaults
      BY <1>1, <3>1
    <3>3. b \in named
      BY <2>1, <2>3
    <3> QED BY <2>1, <3>2, <3>3
  <2> QED BY <2>2, <2>3
<1> QED BY <1>2, <1>3, <1>5, ZenonT(60)

\* What a command run in a directory is about is associated with it, no other agent there is closer, and one as
\* close was set aside by the variant or for the only agent of the default manifest, whatever the other commands
\* do meanwhile (bin/agentctl/main.rs, resolve_agent_name).
THEOREM CommandsResolveTheClosest == CommandSpec => ResolvedIsTheClosest
<1> DEFINE Resolves ==
      \A t \in Terminals :
          command[t].step = "resolves" /\ command'[t].step = "asks" =>
              LET a == command'[t].agent variant == command[t].line.variant
              IN /\ a \in Associated /\ \A b \in Associated : assoc[b].depth <= assoc[a].depth
                 /\ variant # "none" => assoc[a].leaf = variant
                 /\ \A b \in Associated \ {a} : assoc[b].depth = assoc[a].depth =>
                        assoc[b].leaf # assoc[a].leaf /\ (variant = "none" => assoc[a].leaf = "agent.yaml")
<1>1. CommandInit => CliInv
  BY CommandsStart
<1>2. CliInv /\ [CommandNext]_cliVars => CliInv'
  BY DaemonsStep, CommandsStep DEF CliInv
<1>3. CliInv /\ [CommandNext]_cliVars => [Resolves]_cliVars
  <2> SUFFICES ASSUME CommandsInv, CommandNext, NEW t \in Terminals,
                      command[t].step = "resolves", command'[t].step = "asks"
               PROVE LET a == command'[t].agent variant == command[t].line.variant
                     IN /\ a \in Associated /\ \A b \in Associated : assoc[b].depth <= assoc[a].depth
                        /\ variant # "none" => assoc[a].leaf = variant
                        /\ \A b \in Associated \ {a} : assoc[b].depth = assoc[a].depth =>
                               assoc[b].leaf # assoc[a].leaf /\ (variant = "none" => assoc[a].leaf = "agent.yaml")
    BY ZenonT(60) DEF CliInv
  <2> DEFINE found == resolve_directory_variant(command[t].line.variant)
  <2>1. ResolvesAgent(t)
    BY OnlyResolutionResolves
  <2>2. command \in [Terminals -> CmdRecords]
    BY DEF CommandsInv
  <2>3. ASSUME NEW what, CommandSays(t, what) PROVE FALSE
    <3>1. command'[t].step = "shell"
      BY <2>2, <2>3 DEF CommandSays, CmdRecords
    <3> QED BY <3>1
  <2>4. /\ Cardinality(found) = 1
        /\ command' = [command EXCEPT ![t].step = "asks", ![t].agent = CHOOSE a \in found : TRUE]
    BY <2>1, <2>3, ZenonT(60) DEF ResolvesAgent
  <2>5. IsFiniteSet(found)
    <3>1. found \subseteq CmdAgents
      BY DEF resolve_directory_variant, Closest, Associated
    <3> QED BY <3>1, CommandLineConstants, FS_Subset
  <2>6. PICK a : found = {a}
    <3> HIDE DEF found
    <3> QED BY <2>4, <2>5, FS_Singleton
  <2>7. command'[t].agent = a
    <3> HIDE DEF found
    <3>1. (CHOOSE b \in found : TRUE) = a
      BY <2>6
    <3>2. command' = [command EXCEPT ![t].step = "asks", ![t].agent = a]
      BY <2>4, <3>1
    <3> QED BY <2>2, <3>2 DEF CmdRecords
  <2>8. resolve_directory_variant(command[t].line.variant) = {a}
    BY <2>6
  <2> QED BY <2>7, <2>8, TheOneIsTheClosest, ZenonT(60)
<1> QED BY <1>1, <1>2, <1>3, PTL DEF CommandSpec, ResolvedIsTheClosest, Resolves

=============================================================================
