------------------------------- MODULE Desired -------------------------------
(***************************************************************************)
(* The agent control plane's writes of desired state (control_plane/       *)
(* service.rs) on the agent store (persistence/agents.rs, memory.rs):      *)
(* concurrent requests read an agent, decide, and write it back on the     *)
(* condition that its generation is the one they read, or read it again.   *)
(* Every store call is one step; between two calls other requests, the     *)
(* reconciler and the host's file system move.                             *)
(* A bind mount's source is one directory, which may hold the secret file  *)
(* an agent selects with --env-file.                                       *)
(***************************************************************************)
EXTENDS Naturals, FiniteSets

CONSTANTS
    Clients,          \* control API requests served at once
    AgentNames,
    Asks,             \* the requests clients make
    MaxIncarnations,  \* bound: agents created under one name
    MaxGeneration     \* bound: generations of one agent

Mounts == {"none", "optional", "required"}
Envs == {"default", "inside", "outside"}
RunStates == {"Running", "Stopped"}
Unset == "unset"      \* what a manifest leaves open

ASSUME DesiredConstants ==
    /\ MaxIncarnations \in Nat /\ MaxGeneration \in Nat
    /\ \A ask \in Asks :
          /\ ask.op \in {"apply", "start", "stop", "restart", "delete"} /\ ask.name \in AgentNames
          /\ ask.op = "apply" => /\ ask.mounts \in Mounts /\ ask.secrets \in BOOLEAN
                                /\ ask.run \in RunStates \cup {Unset} /\ ask.env \in Envs \cup {Unset}

VARIABLES
    rows,       \* the agents' rows, by name and incarnation
    request,   \* what each client's request is doing
    disk,      \* whether the optional mount's source exists, and whether it holds a .env file
    stops,     \* immediate stops asked for: the generation by agent, and whose generation it is
    raced      \* a check of an apply was followed by another's write before its own

desiredVars == <<rows, request, disk, stops, raced>>

Ids == AgentNames \X (1..MaxIncarnations)
NoRow == [state |-> "none"]
NoId == <<>>
Quiet == [at |-> "quiet"]
Stored(id) == rows[id].state \in {"active", "deleting"}

\* The agent its name finds, NoId when none has it.
get_by_name(name) ==
    LET found == {id \in Ids : id[1] = name /\ Stored(id)}
    IN IF found = {} THEN NoId ELSE CHOOSE id \in found : TRUE

\* The mounts the sandbox gets: an optional one only when it was there at the creation.
sandbox_mounts(r) == r.mounts = "required" \/ (r.mounts = "optional" /\ r.present)

\* The agent's selected secret file lies in the mounted directory.
SecretInside(r) == r.secrets /\ r.env = "inside"

DesiredTypeOK ==
    /\ \A id \in Ids : rows[id] = NoRow \/
         /\ rows[id].state \in {"active", "deleting", "gone"}
         /\ rows[id].generation \in 1..MaxGeneration /\ rows[id].restart \in 0..rows[id].generation
         /\ rows[id].run \in {"Running", "Stopped"}
    /\ \A name \in AgentNames : Cardinality({id \in Ids : id[1] = name /\ Stored(id)}) <= 1
    /\ disk \in [present : BOOLEAN, dotenv : BOOLEAN]
    /\ \A id \in Ids : stops[id].generation \in 0..MaxGeneration
    /\ raced \in BOOLEAN

DesiredInit ==
    /\ rows = [id \in Ids |-> NoRow]
    /\ request = [c \in Clients |-> Quiet]
    /\ disk \in [present : BOOLEAN, dotenv : {FALSE}]
    /\ stops = [id \in Ids |-> [generation |-> 0, of |-> id]]
    /\ raced = FALSE

RequestAt(c, step) == request[c].at = step
RequestMoves(c, step) == request' = [request EXCEPT ![c].at = step]
Answered(c) == request' = [request EXCEPT ![c] = Quiet]
Stays == UNCHANGED <<rows, disk, stops, raced>>

\* A client asks. An apply resolves its mount sources first.
Asked(c, ask) ==
    /\ RequestAt(c, "quiet")
    /\ request' = [request EXCEPT ![c] =
           [at |-> IF ask.op = "apply" THEN "resolves" ELSE IF ask.op = "stop" /\ ask.now THEN "identifies" ELSE "reads",
            ask |-> ask, id |-> NoId, who |-> NoId, present |-> FALSE, read |-> NoRow, new |-> NoRow]]
    /\ Stays

\* resolve_mount_sources: a required source must exist, an optional one that
\* does not is left out.
resolve_mount_sources(c) ==
    /\ RequestAt(c, "resolves") /\ Stays
    /\ IF request[c].ask.mounts = "required" /\ ~disk.present THEN Answered(c)
       ELSE request' = [request EXCEPT ![c].at = "reads", ![c].present = disk.present]

-----------------------------------------------------------------------------
(* apply *)

\* The manifest's run state, else the agent's own, else Running.
applied_run_state(c, current) ==
    IF request[c].ask.run # Unset THEN request[c].ask.run
    ELSE IF current = NoRow THEN "Running" ELSE current.run

Env(c, current) ==
    IF request[c].ask.env # Unset THEN request[c].ask.env
    ELSE IF current = NoRow THEN "default" ELSE current.env

\* Optional sources are decided when the agent is created.
Present(c, current) == IF current = NoRow THEN request[c].present ELSE current.present

Restarts(current) == IF current = NoRow THEN 0 ELSE current.restart

\* The row an apply would store over `current`.
Applied(c, current) ==
    LET ask == request[c].ask
    IN [state |-> "active", mounts |-> ask.mounts, secrets |-> ask.secrets,
        present |-> Present(c, current), env |-> Env(c, current),
        run |-> applied_run_state(c, current), restart |-> Restarts(current),
        generation |-> IF current = NoRow THEN 1 ELSE current.generation + 1]

\* get_by_name, and what refuses the apply before anything else is read.
ReadsForApply(c) ==
    /\ RequestAt(c, "reads") /\ request[c].ask.op = "apply" /\ Stays
    /\ LET id == get_by_name(request[c].ask.name)
           current == IF id = NoId THEN NoRow ELSE rows[id]
       IN IF current # NoRow /\ (\/ request[c].ask.create_only
                                 \/ current.state = "deleting"
                                 \/ current.mounts # request[c].ask.mounts)
          THEN Answered(c)
          ELSE request' = [request EXCEPT ![c] = [@ EXCEPT !.at = "checks", !.id = id, !.read = current,
                                                           !.new = Applied(c, current)]]

Others(id) == {other \in Ids \ {id} : rows[other].state = "active"}

\* The plausible slip: only the mounts of the agent itself are checked.
Exposes_OwnMounts(id, new) ==
    /\ sandbox_mounts(new)
    /\ SecretInside(new) \/ \E other \in Others(id) : SecretInside(rows[other])

\* A mount of the agent holds its own or another active agent's secret file,
\* or its own secret file lies in another's mount.
Exposes(id, new) ==
    \/ sandbox_mounts(new) /\ (SecretInside(new) \/ \E other \in Others(id) : SecretInside(rows[other]))
    \/ SecretInside(new) /\ \E other \in Others(id) : sandbox_mounts(rows[other])

Same(new, current) ==
    current # NoRow /\ new = [current EXCEPT !.generation = new.generation, !.restart = new.restart]

\* reject_exposed_secrets, then an apply that changes nothing is answered.
Checks(c) ==
    /\ RequestAt(c, "checks") /\ Stays
    /\ LET new == request[c].new
       IN IF (sandbox_mounts(new) /\ disk.present /\ disk.dotenv) \/ Exposes(request[c].id, new)
             \/ Same(new, request[c].read)
          THEN Answered(c) ELSE RequestMoves(c, "puts")

\* put: the row is stored if its generation is still the one that was read.
CanPut(c) ==
    LET id == request[c].id read == request[c].read
    IN IF read = NoRow THEN get_by_name(request[c].ask.name) = NoId
       ELSE rows[id].state = "active" /\ rows[id].generation = read.generation

Unused(name) == {i \in 1..MaxIncarnations : rows[<<name, i>>] = NoRow}

NewId(name) == <<name, CHOOSE i \in Unused(name) : \A j \in Unused(name) : i <= j>>

\* The plausible slip: only the generation is read again.
Conflicts_KeepingTheChange(c) ==
    /\ RequestAt(c, "puts") /\ ~CanPut(c)
    /\ LET id == get_by_name(request[c].ask.name)
       IN request' = IF id = NoId \/ request[c].id # id THEN [request EXCEPT ![c] = Quiet]
                     ELSE [request EXCEPT ![c] = [@ EXCEPT !.read = rows[id], !.new.generation = rows[id].generation + 1]]
    /\ Stays

\* A conflict is not an error: the agent is read again.  One that is gone is.
Conflicts(c) ==
    /\ RequestAt(c, "puts") /\ ~CanPut(c)
    /\ request' = [request EXCEPT ![c] =
           IF @.read # NoRow /\ ~Stored(@.id) THEN Quiet
           ELSE [@ EXCEPT !.at = "reads", !.id = NoId, !.read = NoRow, !.new = NoRow]]
    /\ Stays

PutsApply(c) ==
    /\ RequestAt(c, "puts") /\ request[c].ask.op = "apply" /\ CanPut(c)
    /\ request[c].read = NoRow => Unused(request[c].ask.name) # {}
    /\ request[c].new.generation <= MaxGeneration
    /\ LET id == IF request[c].read = NoRow THEN NewId(request[c].ask.name) ELSE request[c].id
       IN rows' = [rows EXCEPT ![id] = request[c].new]
    /\ raced' = (raced \/ \E d \in Clients \ {c} : RequestAt(d, "puts") /\ request[d].ask.op = "apply")
    /\ Answered(c) /\ UNCHANGED <<disk, stops>>

-----------------------------------------------------------------------------
(* stop, start, restart, delete *)

\* stop_now: the agent is identified before its stop is stored.
Identifies(c) ==
    /\ RequestAt(c, "identifies") /\ Stays
    /\ LET id == get_by_name(request[c].ask.name)
       IN IF id = NoId THEN Answered(c)
          ELSE request' = [request EXCEPT ![c].at = "reads", ![c].who = id]

\* The change a request makes to the agent it read.
Changed(ask, current) ==
    [current EXCEPT !.run = IF ask.op \in {"start", "restart"} THEN "Running" ELSE "Stopped",
                    !.restart = IF ask.op = "restart" THEN current.generation + 1 ELSE @,
                    !.generation = @ + 1]

\* change_desired reads the agent; a change that changes nothing is not stored.
ReadsForChange(c) ==
    /\ RequestAt(c, "reads") /\ request[c].ask.op \notin {"apply", "delete"} /\ Stays
    /\ LET id == get_by_name(request[c].ask.name) ask == request[c].ask
       IN IF id = NoId THEN Answered(c)
          ELSE IF rows[id].state = "deleting" THEN Answered(c)
          ELSE LET new == Changed(ask, rows[id])
                   changes == ask.op = "restart" \/ new.run # rows[id].run
               IN request' = [request EXCEPT ![c] =
                      [@ EXCEPT !.at = IF changes THEN "puts" ELSE "stored", !.id = id, !.read = rows[id],
                                !.new = IF changes THEN new ELSE rows[id]]]

PutsChange(c) ==
    /\ RequestAt(c, "puts") /\ request[c].ask.op # "apply" /\ CanPut(c)
    /\ request[c].new.generation <= MaxGeneration
    /\ rows' = [rows EXCEPT ![request[c].id] = request[c].new]
    /\ RequestMoves(c, "stored") /\ UNCHANGED <<disk, stops, raced>>

\* Once the change is stored, a stop or restart that shall be immediate is
\* asked of the reconciler.
AsksForImmediateStop(c) ==
    /\ RequestAt(c, "stored")
    /\ LET ask == request[c].ask
           id == IF ask.op = "stop" THEN request[c].who ELSE request[c].id
       IN IF ask.op \in {"stop", "restart"} /\ ask.now
          THEN stops' = [stops EXCEPT ![id] = [generation |-> request[c].new.generation, of |-> request[c].id]]
          ELSE UNCHANGED stops
    /\ Answered(c) /\ UNCHANGED <<rows, disk, raced>>

\* delete: marking is one transaction, and repeating it is safe.
mark_deleting(c) ==
    /\ RequestAt(c, "reads") /\ request[c].ask.op = "delete"
    /\ LET id == get_by_name(request[c].ask.name)
       IN rows' = IF id = NoId THEN rows ELSE [rows EXCEPT ![id].state = "deleting"]
    /\ Answered(c) /\ UNCHANGED <<disk, stops, raced>>

-----------------------------------------------------------------------------
(* The reconciler and the host *)

finalize_deletion(id) ==
    /\ rows[id].state = "deleting" /\ rows' = [rows EXCEPT ![id].state = "gone"]
    /\ UNCHANGED <<request, disk, stops, raced>>

\* A pass takes the immediate stop, or a start stored later supersedes it.
TakesStop(id) ==
    /\ stops[id].generation # 0
    /\ stops' = [stops EXCEPT ![id] = [generation |-> 0, of |-> id]]
    /\ UNCHANGED <<rows, request, disk, raced>>

\* The mounted directory comes and goes, and a .env file in it.
HostChanges ==
    /\ \E d \in [present : BOOLEAN, dotenv : BOOLEAN] : d # disk /\ (d.dotenv => d.present) /\ disk' = d
    /\ UNCHANGED <<rows, request, stops, raced>>

Applies(c) == resolve_mount_sources(c) \/ ReadsForApply(c) \/ Checks(c) \/ PutsApply(c)
ChangesRunState(c) == Identifies(c) \/ ReadsForChange(c) \/ PutsChange(c) \/ AsksForImmediateStop(c)

DesiredNext ==
    \/ \E c \in Clients : Applies(c) \/ ChangesRunState(c) \/ Conflicts(c) \/ mark_deleting(c)
                          \/ \E ask \in Asks : Asked(c, ask)
    \/ \E id \in Ids : finalize_deletion(id) \/ TakesStop(id)
    \/ HostChanges

DesiredSpec == DesiredInit /\ [][DesiredNext]_desiredVars

-----------------------------------------------------------------------------
(* Properties *)

\* No sandbox of an active agent gets a mount that holds the selected secret
\* file of an active agent: the combination is refused when it is applied,
\* from whichever side (reject_exposed_secrets).  The check and the write are
\* two store calls, and the generation only guards the agent itself, so two
\* applies that both checked before either wrote are not seen by each other.
ExposureIsRefused ==
    ~raced => \A id, other \in Ids :
        rows[id].state = "active" /\ rows[other].state = "active" =>
            ~(sandbox_mounts(rows[id]) /\ SecretInside(rows[other]))

\* What concurrent requests may not do to an agent: a write is one new
\* generation of the row as it was, never of an agent being deleted; a stop or
\* start is not undone by an apply that leaves the run state open ("applying a
\* manifest that omits it never stops or starts the agent"), a restart asked
\* for is not lost by one, and the mounts of its sandbox stay those it was
\* created with.
WritesAreKept ==
    [][\A id \in Ids : rows[id] # NoRow /\ rows'[id] # rows[id] =>
          /\ rows[id].state = "active" \/ (rows[id].state = "deleting" /\ rows'[id] = [rows[id] EXCEPT !.state = "gone"])
          /\ rows'[id].generation = rows[id].generation + (IF rows'[id].state = "active" THEN 1 ELSE 0)
          /\ rows'[id].restart >= rows[id].restart
          /\ sandbox_mounts(rows'[id]) = sandbox_mounts(rows[id])
          /\ rows'[id].run # rows[id].run =>
                 \E c \in Clients : request[c] # Quiet /\ request'[c].at # request[c].at
                                    /\ (request[c].ask.op = "apply" => request[c].ask.run = rows'[id].run)
      ]_desiredVars

\* "Each request belongs to the generation that stored the stop" (ImmediateStops).
RequestBelongsToItsStop == \A id \in Ids : stops[id].of = id

\* What is stored is a state the checks of apply allow: no agent mounts a workspace another one
\* keeps its secrets from (control_plane/service.rs).
StoredIsAllowed ==
    /\ DesiredTypeOK
    /\ ExposureIsRefused

=============================================================================
