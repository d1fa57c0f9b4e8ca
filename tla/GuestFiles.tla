------------------------------- MODULE GuestFiles -------------------------------
(***************************************************************************)
(* Placing a file in a guest from the host (agentctl platform/files.rs     *)
(* over microsandbox files.rs): the file is compared, and replaced only    *)
(* when it differs, by renaming a complete sibling over it.                *)
(*                                                                         *)
(* The sandbox user owns the directory: it may replace, delete or chmod    *)
(* the file between any two requests of the host, and the runtime may      *)
(* refuse any of them.  A file is an inode; a reader keeps the one it      *)
(* opened.                                                                 *)
(***************************************************************************)
EXTENDS Naturals, FiniteSets

CONSTANTS
    Placers,       \* host passes that place the file
    FileContents,  \* what the file may hold
    MaxInodes,     \* inodes ever created
    MaxReads       \* reads by others

ASSUME FileConstants == MaxInodes \in Nat /\ MaxReads \in Nat

VARIABLES
    path,       \* the inode at the path, 0 when there is none
    inodes,     \* every inode created
    placer,     \* what each host pass is doing
    touched,    \* history: another changed the file "before" the pass looked, or "since"
    read        \* another reader: the inode it has open, and whether what it read was whole

fileVars == <<path, inodes, placer, touched, read>>

Owners == {"root", "user"}
Modes == {"0600", "0644", "0755", "4755"}
Inode == [content : FileContents, whole : BOOLEAN, owner : Owners, mode : Modes]
RestingPlacer == [at |-> "rests", content |-> CHOOSE c \in FileContents : TRUE,
            open |-> 0, existing |-> 0, staged |-> 0, blind |-> FALSE]

Ids == 1..Cardinality(DOMAIN inodes)
Create(inode) == inodes' = [i \in 1..Cardinality(DOMAIN inodes) + 1 |->
                              IF i \in DOMAIN inodes THEN inodes[i] ELSE inode]
Room == Cardinality(DOMAIN inodes) < MaxInodes
Latest == Cardinality(DOMAIN inodes) + 1
Rests(p) == placer' = [placer EXCEPT ![p] = RestingPlacer]
Set(p, fields) == placer' = [placer EXCEPT ![p] = [f \in DOMAIN @ |-> IF f \in DOMAIN fields THEN fields[f] ELSE @[f]]]

-----------------------------------------------------------------------------
(* External: the sandbox user, and other readers.                          *)

Touch(p) == IF placer[p].at \in {"compares", "looks"} THEN "before" ELSE "since"
Touches == touched' = [p \in Placers |-> Touch(p)]

GuestReplaces(content, mode) ==
    /\ Room
    /\ Create([content |-> content, whole |-> TRUE, owner |-> "user", mode |-> mode])
    /\ path' = Latest
    /\ Touches /\ UNCHANGED <<placer, read>>

GuestDeletes ==
    /\ path # 0 /\ path' = 0
    /\ Touches /\ UNCHANGED <<inodes, placer, read>>

GuestChmods(mode) ==
    /\ path # 0 /\ inodes[path].mode # mode
    /\ inodes' = [inodes EXCEPT ![path].mode = mode]
    /\ Touches /\ UNCHANGED <<path, placer, read>>

Opens ==
    /\ path # 0 /\ read.open = 0 /\ read.count < MaxReads
    /\ read' = [read EXCEPT !.open = path, !.count = @ + 1]
    /\ UNCHANGED <<path, inodes, placer, touched>>

Finishes ==
    /\ read.open # 0
    /\ read' = [read EXCEPT !.open = 0, !.whole = @ /\ inodes[read.open].whole]
    /\ UNCHANGED <<path, inodes, placer, touched>>

-----------------------------------------------------------------------------
(* write_if_changed.                                                       *)

\* The setup of a pass wants the file to hold `content`.
Wants(p, content) ==
    /\ placer[p].at = "rests"
    /\ Set(p, [at |-> "compares", content |-> content, open |-> path, existing |-> 0, staged |-> 0,
              blind |-> FALSE])
    /\ touched' = [touched EXCEPT ![p] = "no"]
    /\ UNCHANGED <<path, inodes, read>>

\* A file that cannot be read, or is longer, counts as changed.
Compares(p) ==
    /\ placer[p].at = "compares"
    /\ LET i == placer[p].open IN
       IF i # 0 /\ inodes[i].content = placer[p].content THEN Rests(p) ELSE Set(p, [at |-> "looks"])
    /\ UNCHANGED <<path, inodes, touched, read>>

ReadFails(p) ==
    /\ placer[p].at = "compares"
    /\ Set(p, [at |-> "looks", blind |-> TRUE])
    /\ UNCHANGED <<path, inodes, touched, read>>

\* existing_regular_file: its owner and mode, to be kept.
LooksAtFile(p) ==
    /\ placer[p].at = "looks"
    /\ Set(p, [at |-> "stages", existing |-> path])
    /\ UNCHANGED <<path, inodes, touched, read>>

\* A new sibling, readable by the guest's supervisor only.
Stages(p) ==
    /\ placer[p].at = "stages" /\ Room
    /\ Create([content |-> placer[p].content, whole |-> FALSE, owner |-> "root", mode |-> "0600"])
    /\ Set(p, [at |-> "streams", staged |-> Latest])
    /\ UNCHANGED <<path, touched, read>>

\* stream_into, and the handle is closed.
Streams(p) ==
    /\ placer[p].at = "streams"
    /\ inodes' = [inodes EXCEPT ![placer[p].staged].whole = TRUE]
    /\ Set(p, [at |-> IF placer[p].existing = 0 THEN "chmods" ELSE "chowns"])
    /\ UNCHANGED <<path, touched, read>>

\* The kernel clears set-user-ID of a file it gives another owner.
Given(inode, owner) ==
    [inode EXCEPT !.owner = owner, !.mode = IF @ = "4755" THEN "0755" ELSE @]

\* What was seen of the replaced file, whatever became of it since.
Chowns(p) ==
    /\ placer[p].at = "chowns"
    /\ inodes' = [inodes EXCEPT ![placer[p].staged] = Given(@, inodes[placer[p].existing].owner)]
    /\ Set(p, [at |-> "chmods"])
    /\ UNCHANGED <<path, touched, read>>

Chmods(p) ==
    /\ placer[p].at = "chmods"
    /\ inodes' = [inodes EXCEPT ![placer[p].staged].mode =
                    IF placer[p].existing = 0 THEN "0644" ELSE inodes[placer[p].existing].mode]
    /\ Set(p, [at |-> "renames"])
    /\ UNCHANGED <<path, touched, read>>

Renames(p) ==
    /\ placer[p].at = "renames"
    /\ path' = placer[p].staged
    /\ Rests(p)
    /\ touched' = [q \in Placers |-> IF q = p THEN touched[q] ELSE Touch(q)]
    /\ UNCHANGED <<inodes, read>>

\* The sibling is removed.  That is best effort; a removal that fails too leaves
\* garbage under a name nothing else uses, and is left out.
PlacingFails(p) ==
    /\ placer[p].at \in {"looks", "stages", "streams", "chowns", "chmods", "renames"}
    /\ Rests(p)
    /\ UNCHANGED <<path, inodes, touched, read>>

FileInit ==
    /\ path = 0 /\ inodes = [i \in {} |-> {}]
    /\ placer = [p \in Placers |-> RestingPlacer]
    /\ touched = [p \in Placers |-> "no"]
    /\ read = [open |-> 0, whole |-> TRUE, count |-> 0]

FileNext ==
    \/ \E content \in FileContents, mode \in {"0644", "4755"} : GuestReplaces(content, mode)
    \/ GuestDeletes \/ GuestChmods("0755") \/ Opens \/ Finishes
    \/ \E p \in Placers :
          \/ \E content \in FileContents : Wants(p, content)
          \/ Compares(p) \/ ReadFails(p) \/ LooksAtFile(p) \/ Stages(p) \/ Streams(p)
          \/ Chowns(p) \/ Chmods(p) \/ Renames(p) \/ PlacingFails(p)

FileSpec == FileInit /\ [][FileNext]_fileVars

-----------------------------------------------------------------------------
(* Properties.                                                             *)

FileTypeOK ==
    /\ path \in {0} \cup DOMAIN inodes
    /\ \A i \in DOMAIN inodes : inodes[i] \in Inode
    /\ \A p \in Placers : placer[p].staged # 0 <=>
          placer[p].at \in {"streams", "chowns", "chmods", "renames"}
    /\ touched \in [Placers -> {"no", "before", "since"}]
    /\ read.open \in {0} \cup DOMAIN inodes /\ read.count \in 0..MaxReads

\* A reader sees the old or the new file, never part of one.
ReadersSeeWholeFiles == read.whole /\ (path # 0 => inodes[path].whole)

\* What streams in is not exposed meanwhile: only the guest's supervisor may
\* read a file that is not complete.
StreamingIsPrivate == \A i \in DOMAIN inodes :
    ~inodes[i].whole => inodes[i].mode = "0600" /\ inodes[i].owner = "root"

Replaces(p) == placer[p].at = "renames" /\ placer'[p].at = "rests" /\ path' = placer[p].staged

\* A replaced file keeps its owner and mode, set-user-ID too, and a new one has
\* the default mode; unless another touched the file after the pass looked at it.
ReplacingKeepsAttributes ==
    [][\A p \in Placers : Replaces(p) /\ touched[p] # "since" =>
         IF path = 0 THEN inodes[path'].mode = "0644"
         ELSE /\ inodes[path'].mode = inodes[path].mode
              /\ inodes[path'].owner = inodes[path].owner]_fileVars

\* Placing is convergent: a pass that could read the file, which no other
\* changed, replaces it only by one that holds something else, so a harness
\* that watches it is not made to reload it.
UnchangedIsNotReplaced ==
    [][\A p \in Placers : Replaces(p) /\ touched[p] = "no" /\ ~placer[p].blind /\ path # 0 =>
         inodes[path].content # placer[p].content]_fileVars

=============================================================================
