--------------------------- MODULE SandboxBackend ---------------------------
(***************************************************************************)
(* What a sandbox backend promises for one sandbox name (the SandboxBackend *)
(* trait of sandbox/core/src/backend.rs), as the in-memory Provider        *)
(* (memory.rs) implements it: every operation is one atomic step.          *)
(***************************************************************************)
EXTENDS Naturals

CONSTANTS
    MaxIds,          \* ids the lifecycle owner assigns; each is used once
    BoxResources,    \* resource assignments
    Environments     \* environments

VARIABLES
    box,             \* the sandbox the name finds, or NoBox
    lastId           \* the last id that was assigned

backendVars == <<box, lastId>>

NoBox == [state |-> "Absent"]

Box(id, state, resources, environment) ==
    [state |-> state, id |-> id, resources |-> resources, environment |-> environment]

Exists == box.state # "Absent"

\* create makes a stopped sandbox under a fresh id.
create ==
    /\ ~Exists
    /\ lastId < MaxIds
    /\ lastId' = lastId + 1
    /\ \E r \in BoxResources, e \in Environments : box' = Box(lastId', "Stopped", r, e)

update_resources ==
    /\ Exists
    /\ \E r \in BoxResources : box' = [box EXCEPT !.resources = r]
    /\ UNCHANGED lastId

\* update_environment refuses a sandbox that is not stopped.
update_environment ==
    /\ box.state = "Stopped"
    /\ \E e \in Environments : box' = [box EXCEPT !.environment = e]
    /\ UNCHANGED lastId

start ==
    /\ Exists
    /\ box' = [box EXCEPT !.state = "Running"]
    /\ UNCHANGED lastId

\* stop and kill; a sandbox may also end by itself.
stop ==
    /\ Exists
    /\ box' = [box EXCEPT !.state = "Stopped"]
    /\ UNCHANGED lastId

delete ==
    /\ Exists
    /\ box' = NoBox
    /\ UNCHANGED lastId

BackendInit ==
    /\ box = NoBox
    /\ lastId = 0

BackendNext == create \/ update_resources \/ update_environment \/ start \/ stop \/ delete

BackendSpec == BackendInit /\ [][BackendNext]_backendVars

=============================================================================
