------------------------------ MODULE SkillInstall ------------------------------
(***************************************************************************)
(* `agentctl skills install` (bin/agentctl/skills.rs over local/skills.rs):*)
(* a skill is copied into every directory the chosen harnesses read.  Each *)
(* copy is assembled beside its place and renamed in, the one it replaces  *)
(* moved aside first, and holds a record of what was installed, so that    *)
(* only what agentctl put there is replaced without asking.                *)
(*                                                                         *)
(* A process may die between any two steps and any of them may fail.  The  *)
(* user edits the directories meanwhile.  A skill has two files, SKILL.md  *)
(* and a script below it.                                                  *)
(***************************************************************************)
EXTENDS Naturals, FiniteSets, GuestFiles

CONSTANTS
    Installs,     \* the processes that install, by process ID
    AtOnce,       \* how many of them run at a time
    SkillSources, \* versions of the skill to install
    MaxTouches    \* how often the user changes a directory

ASSUME SkillConstants == AtOnce \in Nat /\ MaxTouches \in Nat

\* The harnesses, and the directories they read: two share one.
SkillHarnesses == {"claude", "codex", "pi"}
skills_directory(h) == IF h = "claude" THEN ".claude/skills" ELSE ".agents/skills"
SkillPlaces == {skills_directory(h) : h \in SkillHarnesses}

VARIABLES
    skill,     \* what is at each place: a directory, a link, or nothing
    staging,   \* what each process assembles beside each place
    aside,     \* what each process moved out of the way there
    install,   \* what each process is doing
    edited,    \* history: the user changed the place since agentctl last wrote it
    owed,      \* history: something is to be found at the place
    touches    \* how often the user changed something

skillVars == <<skill, staging, aside, install, edited, owed, touches>>

Contents == SkillSources \union {"none", "mine"}
Directory == [main : Contents, script : Contents, digest : SkillSources \union {"none"}]
Nowhere == [kind |-> "nothing"]
Linked == [kind |-> "link"]
Holds(main, script, digest) == [kind |-> "directory", main |-> main, script |-> script, digest |-> digest]
Bare == Holds("none", "none", "none")
Whole(v) == Holds(v, v, v)
Entries == {Nowhere, Linked} \union {Holds(d.main, d.script, d.digest) : d \in Directory}

Off_ == [at |-> "off", source |-> "none", force |-> FALSE, change |-> [p \in {} |-> "none"],
         place |-> "none", since |-> {}]
Installing == {i \in Installs : install[i].at # "off"}
At_(i, at) == install' = [install EXCEPT ![i].at = at]
\* The ID of a process that ended may be another's.
Gone(i) == install' = [install EXCEPT ![i] = Off_]
Place(i) == install[i].place
Source(i) == install[i].source

-----------------------------------------------------------------------------
(* Planning.                                                               *)

\* Record::of and describes: the files are the ones that were installed.
describes(e) == e.digest # "none" /\ e.main = e.digest /\ e.script = e.digest

\* Whatever cannot be read as a skill differs from this one; the same files
\* without a record only gain it.
compare(v, e) ==
    LET same == e.main = v /\ e.script = v IN
    IF e.main = "none" THEN "replace"
    ELSE IF describes(e) /\ same THEN "none"
    ELSE IF describes(e) \/ same THEN "update"
    ELSE "replace"

\* Those asked for, or found on the machine; none is refused.
ChosenHarnesses == SUBSET SkillHarnesses \ {{}}

\* They may share a place, which gets one copy.
PlacesOf(hs) == {skills_directory(h) : h \in hs}

ChangeAt(v, place) ==
    CASE skill[place].kind = "nothing" -> "install"
      [] skill[place].kind = "link" -> "replace"
      [] OTHER -> compare(v, skill[place])

\* execute, reading the source and planning.  The user is asked, by refusing
\* without --force, before anything is written.
Plans(i, v, force, hs) ==
    /\ install[i].at = "off" /\ Cardinality(Installing) < AtOnce
    /\ LET change == [p \in PlacesOf(hs) |-> ChangeAt(v, p)] IN
       /\ force \/ \A p \in DOMAIN change : change[p] # "replace"
       /\ install' = [install EXCEPT ![i] =
             [Off_ EXCEPT !.at = "next", !.source = v, !.force = force, !.change = change]]
    /\ UNCHANGED <<skill, staging, aside, edited, owed, touches>>

-----------------------------------------------------------------------------
(* apply, a place at a time.                                               *)

Remaining(i) == {p \in DOMAIN install[i].change : install[i].change[p] # "none"}

NextPlace(i) ==
    /\ install[i].at = "next"
    /\ IF Remaining(i) = {} THEN Gone(i)
       ELSE \E p \in Remaining(i) :
                install' = [install EXCEPT ![i].at = "clears", ![i].place = p, ![i].change[p] = "none"]
    /\ UNCHANGED <<skill, staging, aside, edited, owed, touches>>

\* What installs left beside the place goes, one running right now included.
Clears(i) ==
    /\ install[i].at = "clears"
    /\ staging' = [j \in Installs |-> [staging[j] EXCEPT ![Place(i)] = Nowhere]]
    /\ aside' = [j \in Installs |-> [aside[j] EXCEPT ![Place(i)] = Nowhere]]
    /\ At_(i, "creates")
    /\ UNCHANGED <<skill, edited, owed, touches>>

CreatesStaging(i) ==
    /\ install[i].at = "creates" /\ staging[i][Place(i)] = Nowhere
    /\ staging' = [staging EXCEPT ![i][Place(i)] = Bare]
    /\ At_(i, "main")
    /\ UNCHANGED <<skill, aside, edited, owed, touches>>

\* The directory of each file is created first, and the staging with it.
StagedNow(i) == IF staging[i][Place(i)] = Nowhere THEN Bare ELSE staging[i][Place(i)]

stage_main(i) ==
    /\ install[i].at = "main"
    /\ staging' = [staging EXCEPT ![i][Place(i)] = [StagedNow(i) EXCEPT !.main = Source(i)]]
    /\ At_(i, "script")
    /\ UNCHANGED <<skill, aside, edited, owed, touches>>

stage_script(i) ==
    /\ install[i].at = "script"
    /\ staging' = [staging EXCEPT ![i][Place(i)] = [StagedNow(i) EXCEPT !.script = Source(i)]]
    /\ At_(i, "record")
    /\ UNCHANGED <<skill, aside, edited, owed, touches>>

\* The record goes into the staging there is.
stage_record(i) ==
    /\ install[i].at = "record" /\ staging[i][Place(i)] # Nowhere
    /\ staging' = [staging EXCEPT ![i][Place(i)].digest = Source(i)]
    /\ At_(i, "swaps")
    /\ UNCHANGED <<skill, aside, edited, owed, touches>>

\* swap_in: a rename cannot replace a directory everywhere.
MovesAside(i) ==
    /\ install[i].at = "swaps" /\ skill[Place(i)] # Nowhere
    /\ aside' = [aside EXCEPT ![i][Place(i)] = skill[Place(i)]]
    /\ skill' = [skill EXCEPT ![Place(i)] = Nowhere]
    /\ At_(i, "moved")
    /\ UNCHANGED <<staging, edited, owed, touches>>

RenamesIn(i) ==
    /\ \/ install[i].at = "moved"
       \/ install[i].at = "swaps" /\ skill[Place(i)] = Nowhere
    /\ staging[i][Place(i)] # Nowhere /\ skill[Place(i)] = Nowhere
    /\ skill' = [skill EXCEPT ![Place(i)] = staging[i][Place(i)]]
    /\ staging' = [staging EXCEPT ![i][Place(i)] = Nowhere]
    /\ edited' = [edited EXCEPT ![Place(i)] = FALSE]
    /\ owed' = [owed EXCEPT ![Place(i)] = TRUE]
    /\ At_(i, IF install[i].at = "moved" THEN "removes" ELSE "next")
    /\ UNCHANGED <<aside, touches>>

RemovesAside(i) ==
    /\ install[i].at = "removes"
    /\ aside' = [aside EXCEPT ![i][Place(i)] = Nowhere]
    /\ At_(i, "next")
    /\ UNCHANGED <<skill, staging, edited, owed, touches>>

-----------------------------------------------------------------------------
(* Failures, deaths and the user.                                          *)

Steps_ == {"clears", "creates", "main", "script", "record", "swaps", "removes"}

\* As it would be if the error of staging were reported after the swap.
InstallFails_Later(i) ==
    /\ install[i].at \in {"main", "script", "record"} /\ staging[i][Place(i)] # Nowhere
    /\ At_(i, "swaps")
    /\ UNCHANGED <<skill, staging, aside, edited, owed, touches>>

\* A step is refused, or finds its staging gone.  The staging goes.
InstallFails(i) ==
    /\ install[i].at \in Steps_
    /\ \E left \in {staging[i][Place(i)], Nowhere} :
           /\ left # Nowhere => install[i].at \in {"clears", "creates"}
           /\ staging' = [staging EXCEPT ![i][Place(i)] = left]
    /\ Gone(i)
    /\ UNCHANGED <<skill, aside, edited, owed, touches>>

\* swap_in, the second rename failing: the copy moved aside returns, unless
\* that is refused too.
RenameFails(i) ==
    /\ install[i].at = "moved"
    /\ \/ /\ aside[i][Place(i)] # Nowhere /\ skill[Place(i)] = Nowhere
          /\ skill' = [skill EXCEPT ![Place(i)] = aside[i][Place(i)]]
          /\ aside' = [aside EXCEPT ![i][Place(i)] = Nowhere]
          /\ UNCHANGED owed
       \/ /\ owed' = [owed EXCEPT ![Place(i)] = FALSE]
          /\ UNCHANGED <<skill, aside>>
    /\ staging' = [staging EXCEPT ![i][Place(i)] = Nowhere]
    /\ Gone(i)
    /\ UNCHANGED <<edited, touches>>

Dies(i) ==
    /\ i \in Installing
    /\ Gone(i)
    /\ owed' = IF install[i].at = "moved" THEN [owed EXCEPT ![Place(i)] = FALSE] ELSE owed
    /\ UNCHANGED <<skill, staging, aside, edited, touches>>

\* External: the user writes a skill, edits one, links or deletes it.
Touches_(place) ==
    /\ touches < MaxTouches /\ touches' = touches + 1
    /\ \E e \in {Nowhere, Linked, Bare, Holds("mine", "none", "none")}
                \union {Holds(v, v, "none") : v \in SkillSources}
                \union (IF skill[place].kind = "directory" THEN {[skill[place] EXCEPT !.script = "mine"]} ELSE {}) :
           /\ e # skill[place]
           /\ skill' = [skill EXCEPT ![place] = e]
           /\ owed' = [owed EXCEPT ![place] = e # Nowhere]
    /\ edited' = [edited EXCEPT ![place] = TRUE]
    /\ install' = [i \in Installs |-> IF i \in Installing
                                       THEN [install[i] EXCEPT !.since = @ \union {place}] ELSE install[i]]
    /\ UNCHANGED <<staging, aside>>

-----------------------------------------------------------------------------

SkillInit ==
    /\ skill = [p \in SkillPlaces |-> Nowhere]
    /\ staging = [i \in Installs |-> [p \in SkillPlaces |-> Nowhere]]
    /\ aside = [i \in Installs |-> [p \in SkillPlaces |-> Nowhere]]
    /\ install = [i \in Installs |-> Off_]
    /\ edited = [p \in SkillPlaces |-> FALSE]
    /\ owed = [p \in SkillPlaces |-> FALSE]
    /\ touches = 0

SkillNext ==
    \/ \E i \in Installs :
          \/ \E v \in SkillSources, force \in BOOLEAN, hs \in ChosenHarnesses : Plans(i, v, force, hs)
          \/ NextPlace(i) \/ Clears(i) \/ CreatesStaging(i)
          \/ stage_main(i) \/ stage_script(i) \/ stage_record(i)
          \/ MovesAside(i) \/ RenamesIn(i) \/ RemovesAside(i)
          \/ InstallFails(i) \/ RenameFails(i) \/ Dies(i)
    \/ \E p \in SkillPlaces : Touches_(p)

SkillSpec == SkillInit /\ [][SkillNext]_skillVars

-----------------------------------------------------------------------------

SkillTypeOK ==
    /\ skill \in [SkillPlaces -> Entries]
    /\ staging \in [Installs -> [SkillPlaces -> Entries \ {Linked}]]
    /\ aside \in [Installs -> [SkillPlaces -> Entries]]
    /\ \A i \in Installs : install[i].place \in SkillPlaces \union {"none"} /\ install[i].since \subseteq SkillPlaces
    /\ edited \in [SkillPlaces -> BOOLEAN] /\ owed \in [SkillPlaces -> BOOLEAN] /\ touches \in 0..MaxTouches

\* A harness never reads half a skill: what agentctl put in a place, and the
\* user has not changed since, is one version whole and its record.  An
\* install may have failed or died at any step, one at a time (swap_in, stage).
NeverHalfASkill ==
    \A p \in SkillPlaces :
        skill[p].kind = "directory" /\ ~edited[p] => \E v \in SkillSources : skill[p] = Whole(v)

\* An install that fails leaves the place with the old copy or the new one;
\* only one that dies between the renames, or cannot rename back, leaves none.
FailureLeavesACopy ==
    \A p \in SkillPlaces :
        owed[p] /\ (\A i \in Installing : ~(Place(i) = p /\ install[i].at = "moved")) => skill[p] # Nowhere

\* What the user made or edited is taken away only by an install told to
\* replace it, or one that planned before it was made (plan, compare).
Precious(v, e) == e.kind = "link" \/ (e.kind = "directory" /\ ~describes(e) /\ ~(e.main = v /\ e.script = v))
TakesAway(i) == install[i].at = "swaps" /\ install'[i].at = "moved"
ReplacesOnlyWhenAsked ==
    [][\A i \in Installs : TakesAway(i) /\ Precious(Source(i), skill[Place(i)]) =>
           install[i].force \/ Place(i) \in install[i].since]_skillVars

\* A place that was installed holds nothing of earlier installs beside it
\* (apply, clearing).
Installed(i) == install[i].at \in {"removes", "swaps", "moved"} /\ install'[i].at = "next"
LeftoversAreCleared ==
    [][\A i \in Installs : Installed(i) =>
           \A j \in Installs : staging'[j][Place(i)] = Nowhere /\ aside'[j][Place(i)] = Nowhere]_skillVars

-----------------------------------------------------------------------------

\* Whoever reads a placed file (GuestFiles) or skill while it is replaced, or
\* after its replacing failed, has a whole one.
PlacedIsWhole ==
    /\ FileTypeOK /\ ReadersSeeWholeFiles /\ StreamingIsPrivate
    /\ SkillTypeOK /\ NeverHalfASkill /\ FailureLeavesACopy

=============================================================================
