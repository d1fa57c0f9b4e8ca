----------------------------- MODULE GuestPlacement -----------------------------
(***************************************************************************)
(* What a setup pass places in an agent's sandbox for its harnesses        *)
(* (sandbox/platform/linux): the agent's home, an instruction file each,   *)
(* and the skills, in folders harnesses may share.  A pass removes the     *)
(* skills that the agent's status says an earlier one placed and the       *)
(* manifest no longer declares, and must leave alone what the image, the   *)
(* home overlay and the sandbox user put there.                            *)
(*                                                                         *)
(* A pass may fail at any step; what it placed is recorded only when it    *)
(* completes and its status is stored.  The manifest and its sources       *)
(* change between passes and during one, which works from the record it    *)
(* began with.                                                             *)
(***************************************************************************)
EXTENDS Naturals, Sequences, FiniteSets

CONSTANTS
    PlacedHarnesses,  \* the harnesses an agent may declare
    MaxChanges,       \* changes of the manifest, its sources and the guest's files
    MaxSandboxes      \* sandboxes the agent is given, one after another

ASSUME PlacementConstants == MaxChanges \in Nat /\ MaxSandboxes \in Nat \ {0}

\* Two of the harnesses read one folder.
Folder(h) == IF h = "claude" THEN ".claude/skills" ELSE ".agents/skills"
Folders == {Folder(h) : h \in PlacedHarnesses}

\* The platform's own skill, one only the agent may declare, the image's.
Declarable == {"agentctl", "review"}
Shipped == "shipped"
OnShelf == {"none", "own", "platform", "image"}
Parts == {"section", "own", "image", "overlay", "user"}

VARIABLES
    manifest,  \* skills, own instructions and harnesses the agent declares
    host,      \* the skill sources there are, all optional, and the home overlay
    in_guest,     \* the sandbox: its id, its skill folders and instruction files
    status,    \* the agent's status: the sandbox, and the skills placed in it
    setup,     \* the pass
    stray,     \* history: skills a pass placed and no status recorded
    byHand,    \* history: files the user of the sandbox changed since they were set anew
    changes    \* bound

placementVars == <<manifest, host, in_guest, status, setup, stray, byHand, changes>>

Empty == [f \in Folders |-> {}]
Image(box) ==
    [box |-> box,
     shelf |-> [f \in Folders |-> [n \in Declarable \union {Shipped} |-> IF n = Shipped THEN "image" ELSE "none"]],
     file |-> [h \in PlacedHarnesses |-> <<"image">>]]
NoPlacing == [at |-> "idle", skills |-> {}, own |-> FALSE, sources |-> {}, left |-> {}, harness |-> "none",
           placed |-> Empty, tidied |-> {}, read |-> <<>>, todo |-> {}]

In_(at) == setup.at = at
Goes_To(at) == setup' = [setup EXCEPT !.at = at]

-----------------------------------------------------------------------------
(* Instruction files.                                                      *)

\* What the file holds besides what an earlier pass placed.
without_section(file) ==
    IF file = <<>> \/ Head(file) # "section" THEN file
    ELSE IF Len(file) > 1 /\ file[2] = "own" THEN <<>>
    ELSE Tail(file)

place(rest) == <<"section">> \o rest
place_own == place(<<"own">>)

-----------------------------------------------------------------------------
(* Skills.                                                                 *)

\* An agent's own skill of the platform's name replaces it.
Skills(s) == s.sources \union {"agentctl"}
SourceOf(s, name) == IF name \in s.sources THEN "own" ELSE "platform"
\* A skill whose source is missing is still declared.
DeclaredIn(s) == s.skills \union {"agentctl"}

\* placed_skills: none when the status is of another sandbox.
placed_skills(box) == IF status.box = box THEN status.placed ELSE Empty

-----------------------------------------------------------------------------
(* The pass.                                                               *)

StartsSetup ==
    /\ In_("idle")
    /\ setup' = [NoPlacing EXCEPT !.at = "syncs", !.skills = manifest.skills, !.own = manifest.own,
                               !.left = manifest.harnesses, !.placed = placed_skills(in_guest.box)]
    /\ UNCHANGED <<manifest, host, in_guest, status, stray, byHand, changes>>

\* archive_home and sync_home: an overlay's files are set anew.
sync_home ==
    /\ In_("syncs")
    /\ in_guest' = IF host.overlay THEN [in_guest EXCEPT !.file = [h \in PlacedHarnesses |-> <<"overlay">>]] ELSE in_guest
    /\ byHand' = IF host.overlay THEN {} ELSE byHand
    /\ Goes_To("sources")
    /\ UNCHANGED <<manifest, host, status, stray, changes>>

\* read_instructions and read_skills: an optional source that does not exist
\* is left out.
ReadsSources ==
    /\ In_("sources")
    /\ setup' = [setup EXCEPT !.at = "harness", !.sources = setup.skills \intersect host.sources]
    /\ UNCHANGED <<manifest, host, in_guest, status, stray, byHand, changes>>

NextHarness ==
    /\ In_("harness") /\ setup.left # {}
    /\ \E h \in setup.left :
           setup' = [setup EXCEPT !.at = "reads", !.harness = h, !.left = @ \ {h}]
    /\ UNCHANGED <<manifest, host, in_guest, status, stray, byHand, changes>>

ReadsInstructions ==
    /\ In_("reads")
    /\ setup' = [setup EXCEPT !.at = "tidies", !.read = IF setup.own THEN <<>> ELSE in_guest.file[setup.harness]]
    /\ UNCHANGED <<manifest, host, in_guest, status, stray, byHand, changes>>

Kept(before) == {n \in DeclaredIn(setup) : n \in Skills(setup) \/ n \in before}

\* The skills an earlier pass placed and the agent no longer declares go,
\* once for each folder (remove_skills_linux).
Tidies ==
    /\ In_("tidies")
    /\ LET f == Folder(setup.harness)
           before == setup.placed[f] IN
       IF f \in setup.tidied THEN Goes_To("writes") /\ UNCHANGED in_guest
       ELSE /\ in_guest' = [in_guest EXCEPT !.shelf[f] = [n \in DOMAIN @ |->
                                        IF n \in before \ DeclaredIn(setup) THEN "none" ELSE @[n]]]
            /\ setup' = [setup EXCEPT !.at = "writes", !.tidied = @ \union {f}, !.placed[f] = Kept(before)]
    /\ UNCHANGED <<manifest, host, status, stray, byHand, changes>>

\* bootstrap_linux: the instruction file and the harness's configuration.
WritesInstructions ==
    /\ In_("writes")
    /\ in_guest' = [in_guest EXCEPT !.file[setup.harness] =
                    IF setup.own THEN place_own ELSE place(without_section(setup.read))]
    /\ byHand' = IF setup.own THEN byHand \ {setup.harness} ELSE byHand
    /\ setup' = [setup EXCEPT !.at = "skills", !.todo = Skills(setup), !.read = <<>>]
    /\ UNCHANGED <<manifest, host, status, stray, changes>>

\* install_linux, a skill at a time.
InstallsSkill ==
    /\ In_("skills")
    /\ IF setup.todo = {} THEN Goes_To("harness") /\ UNCHANGED in_guest
       ELSE \E n \in setup.todo :
                /\ in_guest' = [in_guest EXCEPT !.shelf[Folder(setup.harness)][n] = SourceOf(setup, n)]
                /\ setup' = [setup EXCEPT !.todo = @ \ {n}]
    /\ UNCHANGED <<manifest, host, status, stray, byHand, changes>>

PlacedIn(f) == {n \in DOMAIN in_guest.shelf[f] : in_guest.shelf[f][n] \in {"own", "platform"}}

\* As it would be if the status held only the folders of this pass.
Completes_OnlyTidied ==
    /\ In_("harness") /\ setup.left = {}
    /\ status' = [box |-> in_guest.box, placed |-> [f \in Folders |-> IF f \in setup.tidied THEN setup.placed[f] ELSE {}]]
    /\ stray' = [f \in Folders |-> stray[f] \ setup.placed[f]]
    /\ setup' = NoPlacing
    /\ UNCHANGED <<manifest, host, in_guest, byHand, changes>>

\* The pass ends and its status is stored.
Completes_ ==
    /\ In_("harness") /\ setup.left = {}
    /\ status' = [box |-> in_guest.box, placed |-> setup.placed]
    /\ stray' = [f \in Folders |-> stray[f] \ setup.placed[f]]
    /\ setup' = NoPlacing
    /\ UNCHANGED <<manifest, host, in_guest, byHand, changes>>

\* record_ensure_failure keeps the assignment as it was; so does a pass whose
\* status could not be stored, and one the daemon did not live to end.
SetupFails ==
    /\ ~In_("idle")
    /\ stray' = [f \in Folders |-> stray[f] \union (PlacedIn(f) \ placed_skills(in_guest.box)[f])]
    /\ setup' = NoPlacing
    /\ UNCHANGED <<manifest, host, in_guest, status, byHand, changes>>

-----------------------------------------------------------------------------
(* The user, the sandbox user, and a new sandbox.                          *)

Changed == changes < MaxChanges /\ changes' = changes + 1

ChangesManifest(skills, own, harnesses) ==
    /\ Changed
    /\ manifest' = [skills |-> skills, own |-> own, harnesses |-> harnesses]
    /\ UNCHANGED <<host, in_guest, status, setup, stray, byHand>>

ChangesSources(sources, overlay) ==
    /\ Changed
    /\ host' = [sources |-> sources, overlay |-> overlay]
    /\ UNCHANGED <<manifest, in_guest, status, setup, stray, byHand>>

UserEdits(h) ==
    /\ Changed
    /\ \E file \in {<<>>, <<"user">> \o in_guest.file[h], Append(in_guest.file[h], "user")} :
           in_guest' = [in_guest EXCEPT !.file[h] = file]
    /\ byHand' = byHand \union {h}
    /\ UNCHANGED <<manifest, host, status, setup, stray>>

\* A sandbox that cannot be updated in place is replaced.
GetsSandbox ==
    /\ Changed /\ In_("idle") /\ in_guest.box < MaxSandboxes
    /\ in_guest' = Image(in_guest.box + 1)
    /\ stray' = Empty /\ byHand' = {}
    /\ UNCHANGED <<manifest, host, status, setup>>

-----------------------------------------------------------------------------

PlacementInit ==
    /\ manifest \in [skills : {Declarable}, own : BOOLEAN, harnesses : {PlacedHarnesses}]
    /\ host = [sources |-> Declarable, overlay |-> FALSE]
    /\ in_guest = Image(1)
    /\ status = [box |-> 0, placed |-> Empty]
    /\ setup = NoPlacing
    /\ stray = Empty /\ byHand = {} /\ changes = 0

PlacementNext ==
    \/ StartsSetup \/ sync_home \/ ReadsSources \/ NextHarness
    \/ ReadsInstructions \/ Tidies \/ WritesInstructions \/ InstallsSkill
    \/ Completes_ \/ SetupFails \/ GetsSandbox
    \/ \E skills \in SUBSET Declarable, own \in BOOLEAN, hs \in SUBSET PlacedHarnesses :
           ChangesManifest(skills, own, hs)
    \/ \E sources \in SUBSET Declarable, overlay \in BOOLEAN : ChangesSources(sources, overlay)
    \/ \E h \in PlacedHarnesses : UserEdits(h)

PlacementSpec == PlacementInit /\ [][PlacementNext]_placementVars

-----------------------------------------------------------------------------

PlacementTypeOK ==
    /\ manifest \in [skills : SUBSET Declarable, own : BOOLEAN, harnesses : SUBSET PlacedHarnesses]
    /\ host \in [sources : SUBSET Declarable, overlay : BOOLEAN]
    /\ in_guest.box \in 1..MaxSandboxes
    /\ in_guest.shelf \in [Folders -> [Declarable \union {Shipped} -> OnShelf]]
    /\ \A h \in PlacedHarnesses : \A i \in DOMAIN in_guest.file[h] : in_guest.file[h][i] \in Parts
    /\ status.placed \in [Folders -> SUBSET Declarable]
    /\ setup.tidied \subseteq Folders
    /\ byHand \subseteq PlacedHarnesses /\ changes \in 0..MaxChanges

\* Between passes the status names every skill setup placed in the sandbox,
\* also in folders no harness of the last pass reads and of skills whose
\* source is gone, so that a later pass can remove it; only what a pass that
\* failed placed is missing from it (setup, record_ensure_failure).
StatusKnowsThePlaced ==
    In_("idle") =>
        \A f \in Folders : PlacedIn(f) \subseteq placed_skills(in_guest.box)[f] \union stray[f]

\* The image's own skills stay (remove_linux).
ImageSkillsStay == \A f \in Folders : in_guest.shelf[f][Shipped] = "image"

\* A pass that completed left in each of its folders what the manifest it
\* worked from declares, and no skill it does not that an earlier pass
\* recorded; it never loses one whose source is missing (setup, Tidies).
Finishes_ == setup.at = "harness" /\ setup'.at = "idle" /\ setup.left = {} /\ status'.placed = setup.placed
FoldersAreAsDeclared ==
    [][Finishes_ => \A f \in setup.tidied :
           /\ Skills(setup) \subseteq PlacedIn(f)
           /\ PlacedIn(f) \subseteq DeclaredIn(setup) \union stray[f]
           /\ placed_skills(in_guest.box)[f] \intersect setup.skills \subseteq status'.placed[f]]_placementVars

\* A file a pass wrote opens with one section; below it are the agent's own
\* instructions when it declares any and nothing of them otherwise, unless
\* the user of the sandbox rearranged the file (place, without_section).
Sections(file) == Cardinality({i \in DOMAIN file : file[i] = "section"})
HasPart(file, part) == \E i \in DOMAIN file : file[i] = part
WritesNow(h) == setup.at = "writes" /\ setup'.at = "skills" /\ setup.harness = h
InstructionsAreAsDeclared ==
    [][\A h \in PlacedHarnesses : WritesNow(h) /\ h \notin byHand =>
           /\ Head(in_guest'.file[h]) = "section" /\ Sections(in_guest'.file[h]) = 1
           /\ HasPart(in_guest'.file[h], "own") <=> setup.own]_placementVars

\* What the image or the overlay wrote stays below the section, until the
\* agent has instructions of its own (place).
OthersTextStays ==
    [][\A h \in PlacedHarnesses, part \in {"image", "overlay"} :
           WritesNow(h) /\ ~setup.own /\ HasPart(in_guest.file[h], part) => HasPart(in_guest'.file[h], part)]_placementVars

\* image-contract.md:18: agentd "removes the skills it placed that the agent
\* no longer declares", each time it reconciles the agent.
UndeclaredAreRemoved ==
    [][Finishes_ => \A f \in setup.tidied : PlacedIn(f) \subseteq DeclaredIn(setup)]_placementVars

\* The status knows what a pass placed in the sandbox, and what the image brought stays
\* (sandbox/platform/linux/mod.rs).
PlacedIsRecorded ==
    /\ PlacementTypeOK
    /\ StatusKnowsThePlaced
    /\ ImageSkillsStay

=============================================================================
