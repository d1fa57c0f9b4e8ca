------------------------------ MODULE TuiTree ------------------------------
(***************************************************************************)
(* The tree of agents and sessions in the terminal UI                      *)
(* (bin/agentctl/tui/app.rs): snapshots from the daemon arrive between any *)
(* two keys, and the selection, the open form and the rows must keep       *)
(* meaning the same agents and sessions.  Agents are numbered in name      *)
(* order; a row is <<agent>> or <<agent, session>>.                        *)
(***************************************************************************)
EXTENDS Integers, FiniteSets, SequencesExt

CONSTANTS
    TreeAgents,      \* agents, numbered by name
    TreeSessions,    \* sessions, as <<agent, number>>
    TreeFilters,     \* what a typed filter may match: sets of rows
    TreeForms,       \* the forms and questions a key may open
    AgentStates      \* what the daemon may say of an agent

ASSUME TreeConstants ==
    /\ TreeAgents \subseteq Nat
    /\ \A s \in TreeSessions : s[1] \in TreeAgents /\ s[2] \in Nat
    /\ \A f \in TreeFilters : f \subseteq TreeSessions \cup {<<a>> : a \in TreeAgents}
    /\ TreeForms \subseteq {"delete", "stop", "restart", "delete session", "new session", "prompt", "forward", "open"}
    /\ AgentStates \subseteq {"absent", "running", "stopped", "deleting"}

VARIABLES
    shown,           \* the last snapshot: row -> state
    collapsed,       \* folded agents
    filter,          \* the rows the filter matches; the empty filter matches all
    showArchived,    \* archived sessions are listed
    selection,       \* the selected row, or NoRow
    modal,           \* the open form and the row it is about
    detail,          \* an overlay is open
    sent             \* what the last key did: the action, its row, and the row the user saw for it

treeVars == <<shown, collapsed, filter, showArchived, selection, modal, detail, sent>>

AllRows == TreeSessions \cup {<<a>> : a \in TreeAgents}
NoRow == <<>>
SessionStates == {"absent", "working", "waiting", "archived"}
IsSnapshot(s) ==
    /\ \A r \in AllRows : s[r] \in IF Len(r) = 1 THEN AgentStates ELSE SessionStates
    /\ \A r \in TreeSessions : s[<<r[1]>>] = "absent" => s[r] = "absent"
AsksFirst == {"delete", "stop", "restart", "delete session"}
NoModal == [kind |-> "none"]
Nothing == [kind |-> "none"]

IsFiltered == filter # AllRows

-----------------------------------------------------------------------------
(* rebuild_from.                                                           *)

ByName(r, q) == r[1] < q[1] \/ (r[1] = q[1] /\ Len(q) = 2 /\ (Len(r) = 1 \/ r[2] < q[2]))

\* Shown, and while filtered, matching or of a matching agent.
Listed(snapshot, f, archived) ==
    {s \in TreeSessions : /\ snapshot[s] # "absent"
                          /\ archived \/ snapshot[s] # "archived"
                          /\ <<s[1]>> \in f \/ s \in f}

\* Folding hides sessions only while nothing is filtered, so a match is never hidden.
RowSet(snapshot, folded, f, archived) ==
    LET sessions == Listed(snapshot, f, archived)
        agents == {r \in AllRows : Len(r) = 1 /\ snapshot[r] # "absent"
                                     /\ (r \in f \/ \E s \in sessions : s[1] = r[1])}
    IN agents \cup {s \in sessions : ~(f = AllRows /\ s[1] \in folded)}

TreeOrder == SetToSortSeq(AllRows, ByName)

Rows(snapshot, folded, f, archived) ==
    LET listed == RowSet(snapshot, folded, f, archived) IN SelectSeq(TreeOrder, LAMBDA r : r \in listed)

ShownRows == Rows(shown, collapsed, filter, showArchived)

\* The position of a row, 0 when it is not listed.
IndexOf(rows, r) == IF \E i \in DOMAIN rows : rows[i] = r THEN CHOOSE i \in DOMAIN rows : rows[i] = r ELSE 0

\* session_or_agent_near: the listed session that follows by name, the one before, or the agent.
Near(rows, gone) ==
    LET listed == {i \in DOMAIN rows : Len(rows[i]) = 2 /\ rows[i][1] = gone[1]}
        after == {i \in listed : rows[i][2] > gone[2]}
        before == {i \in listed : rows[i][2] < gone[2]}
    IN CASE after # {} -> rows[Min(after)]
         [] after = {} /\ before # {} -> rows[Max(before)]
         [] after = {} /\ before = {} /\ IndexOf(rows, <<gone[1]>>) # 0 -> <<gone[1]>>
         [] OTHER -> NoRow

Reselect_KeepsSession(chosen, rows, former) ==
    IF Len(chosen) = 2 \/ IndexOf(rows, chosen) # 0 \/ rows = <<>> THEN chosen ELSE rows[1]

Reselect_ByPosition(chosen, rows, former) ==
    LET position == IF former = 0 THEN 1 ELSE IF former > Len(rows) THEN Len(rows) ELSE former
    IN IF IndexOf(rows, chosen) # 0 THEN chosen ELSE IF rows = <<>> THEN NoRow ELSE rows[position]

\* A selection whose row disappeared falls back to a near one, or to its former position.
Reselect(chosen, rows, former) ==
    LET near == IF Len(chosen) = 2 THEN Near(rows, chosen) ELSE NoRow
        position == IF former = 0 THEN 1 ELSE IF former > Len(rows) THEN Len(rows) ELSE former
    IN CASE IndexOf(rows, chosen) # 0 -> chosen
         [] IndexOf(rows, chosen) = 0 /\ near # NoRow -> near
         [] IndexOf(rows, chosen) = 0 /\ near = NoRow /\ rows # <<>> -> rows[position]
         [] OTHER -> NoRow

\* The selection's position is read before the rows it indexes are replaced.
RebuildFrom(chosen) ==
    selection' = Reselect(chosen, Rows(shown', collapsed', filter', showArchived'), IndexOf(ShownRows, chosen))

Rebuild == RebuildFrom(selection)

-----------------------------------------------------------------------------
(* What arrives between keys.                                              *)

Changes(r, state) ==
    [q \in AllRows |-> CASE q = r -> state
                         [] q # r /\ state = "absent" /\ Len(r) = 1 /\ q[1] = r[1] -> "absent"
                         [] OTHER -> shown[q]]

\* apply_snapshot: a resource changed, or an agent went with its sessions.
apply_snapshot(snapshot) ==
    /\ IsSnapshot(snapshot)
    /\ shown' = snapshot
    /\ UNCHANGED <<collapsed, filter, showArchived, modal, detail>>
    /\ sent' = Nothing
    /\ Rebuild

\* archive_changed: the daemon's answer changes a listed session ahead of the watch.
archive_changed(s, state) ==
    /\ shown[s] # "absent" /\ state \in SessionStates \ {"absent"}
    /\ shown' = [shown EXCEPT ![s] = state]
    /\ UNCHANGED <<collapsed, filter, showArchived, modal, detail>>
    /\ sent' = Nothing
    /\ Rebuild

\* agent_applied: the agent that was just created is shown, selected and followed.
agent_applied(a) ==
    /\ shown' = [shown EXCEPT ![<<a>>] = "running"]
    /\ selection' = <<a>>
    /\ detail' = TRUE
    /\ UNCHANGED <<collapsed, filter, showArchived, modal>>
    /\ sent' = Nothing

-----------------------------------------------------------------------------
(* Keys.  on_key: the form gets the key, then the overlay, then the tree.  *)

OnTree == modal = NoModal /\ ~detail

ClosesDetail ==
    /\ detail /\ modal = NoModal
    /\ detail' = FALSE
    /\ UNCHANGED <<shown, collapsed, filter, showArchived, selection, modal>>
    /\ sent' = Nothing

ShowsDetail ==
    /\ OnTree /\ IndexOf(ShownRows, selection) # 0
    /\ detail' = TRUE
    /\ UNCHANGED <<shown, collapsed, filter, showArchived, selection, modal>>
    /\ sent' = Nothing

\* move_selection wraps, move_selection_clamped does not; without a selection it counts from the first row.
Moves(delta, wraps) ==
    LET rows == ShownRows
        current == IF IndexOf(rows, selection) = 0 THEN 0 ELSE IndexOf(rows, selection) - 1
        next == current + delta
    IN
    /\ OnTree \/ ~wraps
    /\ rows # <<>>
    /\ selection' = rows[1 + (CASE wraps -> next % Len(rows)
                               [] ~wraps /\ next < 0 -> 0
                               [] ~wraps /\ next >= Len(rows) -> Len(rows) - 1
                               [] OTHER -> next)]
    /\ UNCHANGED <<shown, collapsed, filter, showArchived, modal, detail>>
    /\ sent' = Nothing

\* select_row: a click on a row that is still there.
Clicks(r) ==
    /\ IndexOf(ShownRows, r) # 0
    /\ selection' = r
    /\ UNCHANGED <<shown, collapsed, filter, showArchived, modal, detail>>
    /\ sent' = Nothing

\* toggle_fold, Left and Right on an agent; Left on a session folds its agent and selects that.
Folds(a) ==
    /\ OnTree
    /\ selection = <<a>> /\ IndexOf(ShownRows, selection) # 0
    /\ collapsed' = IF a \in collapsed THEN collapsed \ {a} ELSE collapsed \cup {a}
    /\ UNCHANGED <<shown, filter, showArchived, modal, detail>>
    /\ sent' = Nothing
    /\ Rebuild

FoldsOwner ==
    /\ OnTree
    /\ Len(selection) = 2 /\ IndexOf(ShownRows, selection) # 0
    /\ collapsed' = collapsed \cup {selection[1]}
    /\ UNCHANGED <<shown, filter, showArchived, modal, detail>>
    /\ sent' = Nothing
    /\ RebuildFrom(<<selection[1]>>)

\* toggle_all compares the number of folded agents with the number of agents.
FoldsAll ==
    LET agents == {a \in TreeAgents : shown[<<a>>] # "absent"} IN
    /\ OnTree
    /\ collapsed' = IF Cardinality(collapsed) = Cardinality(agents) THEN {} ELSE agents
    /\ UNCHANGED <<shown, filter, showArchived, modal, detail>>
    /\ sent' = Nothing
    /\ Rebuild

TogglesArchived ==
    /\ OnTree
    /\ showArchived' = ~showArchived
    /\ UNCHANGED <<shown, collapsed, filter, modal, detail>>
    /\ sent' = Nothing
    /\ Rebuild

\* select_next_needing_input: in tree order after the selection, wrapping around.
NextWaiting ==
    LET order == SelectSeq(TreeOrder, LAMBDA r : shown[r] # "absent")
        start == IndexOf(order, selection)
        steps == {n \in 1..Len(order) : shown[order[1 + ((start + n - 1) % Len(order))]] = "waiting"}
    IN IF steps = {} THEN NoRow ELSE order[1 + ((start + Min(steps) - 1) % Len(order))]

\* One in a folded agent is unfolded, and one the filter hides clears it.
SelectsWaiting ==
    LET target == NextWaiting IN
    /\ OnTree
    /\ target # NoRow
    /\ filter' = IF target \in filter \/ <<target[1]>> \in filter THEN filter ELSE AllRows
    /\ collapsed' = collapsed \ {target[1]}
    /\ UNCHANGED <<shown, showArchived, modal, detail>>
    /\ sent' = [kind |-> "next waiting", target |-> target, saw |-> target]
    /\ RebuildFrom(target)

Asks(kind, r) == modal' = [kind |-> kind, target |-> r]

\* agent_key and session_key open a form about the selected row; nothing runs in a stopped agent.
OpensForm(kind) ==
    LET r == selection
        agent == shown[<<r[1]>>]
    IN
    /\ OnTree /\ IndexOf(ShownRows, r) # 0
    /\ CASE kind = "delete" -> Len(r) = 1
         [] kind = "stop" -> Len(r) = 1 /\ agent \in {"running", "deleting"}
         [] kind = "restart" -> Len(r) = 1 /\ agent \in {"running", "deleting"}
         [] kind = "delete session" -> Len(r) = 2
         [] kind = "forward" -> Len(r) = 1 /\ agent \in {"running", "deleting"}
         [] kind = "prompt" -> Len(r) = 2 /\ agent \in {"running", "deleting"} /\ shown[r] # "archived"
         [] OTHER -> agent \in {"running", "deleting"}
    /\ Asks(kind, IF kind \in {"new session", "open"} THEN <<r[1]>> ELSE r)
    /\ UNCHANGED <<shown, collapsed, filter, showArchived, selection, detail>>
    /\ sent' = Nothing

\* X asks before it stops every agent that is not stopped and not being deleted.
AsksStopAll ==
    LET agents == {a \in TreeAgents : shown[<<a>>] = "running"} IN
    /\ OnTree
    /\ agents # {}
    /\ modal' = [kind |-> "stop all", target |-> agents]
    /\ UNCHANGED <<shown, collapsed, filter, showArchived, selection, detail>>
    /\ sent' = Nothing

\* Attach, archive, start and exec act on the selected row at once.
ActsAtOnce(kind) ==
    LET r == selection
        agent == shown[<<r[1]>>]
    IN
    /\ OnTree /\ IndexOf(ShownRows, r) # 0
    /\ CASE kind = "attach" -> Len(r) = 2 /\ shown[r] # "archived" /\ agent \in {"running", "deleting"}
         [] kind = "archive" -> Len(r) = 2
         [] kind = "start" -> Len(r) = 1 /\ agent = "stopped"
         [] kind = "exec" -> Len(r) = 1 /\ agent \in {"running", "deleting"}
    /\ sent' = [kind |-> kind, target |-> r, saw |-> r]
    /\ UNCHANGED <<shown, collapsed, filter, showArchived, selection, modal, detail>>

\* modal_key: the form's action names the row it was opened for.
Confirms ==
    /\ modal.kind \in TreeForms \cup {"stop all"}
    /\ sent' = [kind |-> modal.kind, target |-> modal.target, saw |-> modal.target]
    /\ modal' = NoModal
    /\ UNCHANGED <<shown, collapsed, filter, showArchived, selection, detail>>

Declines ==
    /\ modal # NoModal
    /\ modal' = NoModal
    /\ UNCHANGED <<shown, collapsed, filter, showArchived, selection, detail>>
    /\ sent' = Nothing

OpensFilter ==
    /\ OnTree
    /\ modal' = [kind |-> "filter"]
    /\ UNCHANGED <<shown, collapsed, filter, showArchived, selection, detail>>
    /\ sent' = Nothing

\* Each character typed, or taken back, rebuilds the rows; Esc clears the filter.
Filters(f) ==
    /\ modal = [kind |-> "filter"] \/ (OnTree /\ IsFiltered /\ f = AllRows)
    /\ filter' = f
    /\ UNCHANGED <<shown, collapsed, showArchived, modal, detail>>
    /\ sent' = Nothing
    /\ Rebuild

-----------------------------------------------------------------------------
TreeInit ==
    /\ shown = [r \in AllRows |-> "absent"]
    /\ collapsed = {}
    /\ filter = AllRows
    /\ showArchived = FALSE
    /\ selection = NoRow
    /\ modal = NoModal
    /\ detail = FALSE
    /\ sent = Nothing

Arrives ==
    \/ \E r \in AllRows, state \in AgentStates \cup SessionStates : apply_snapshot(Changes(r, state))
    \/ \E s \in TreeSessions : \E state \in SessionStates : archive_changed(s, state)

TreeNext ==
    \/ Arrives
    \/ \E a \in TreeAgents : agent_applied(a) \/ Folds(a)
    \/ ClosesDetail \/ ShowsDetail
    \/ \E delta \in {-1, 1}, wraps \in BOOLEAN : Moves(delta, wraps)
    \/ \E r \in AllRows : Clicks(r)
    \/ FoldsOwner \/ FoldsAll \/ TogglesArchived \/ SelectsWaiting
    \/ \E kind \in TreeForms : OpensForm(kind)
    \/ \E kind \in {"attach", "archive", "start", "exec"} : ActsAtOnce(kind)
    \/ AsksStopAll \/ Confirms \/ Declines \/ OpensFilter
    \/ \E f \in TreeFilters \cup {AllRows} : Filters(f)

TreeSpec == TreeInit /\ [][TreeNext]_treeVars

-----------------------------------------------------------------------------
\* Every variable has a value of its kind, and no snapshot lists a session without its agent.
TreeTypeOK ==
    /\ DOMAIN shown = AllRows /\ IsSnapshot(shown)
    /\ collapsed \subseteq TreeAgents
    /\ filter \in TreeFilters \cup {AllRows}
    /\ selection \in AllRows \cup {NoRow}
    /\ {showArchived, detail} \subseteq BOOLEAN
    /\ modal = NoModal \/ modal.kind \in TreeForms \cup {"stop all", "filter"}

\* Keys always act on a row that is listed: whatever a snapshot, an answer, a fold or the
\* filter removed, rebuild_from leaves the selection on a listed row.  The agent that was
\* just created is selected even when the filter hides it.
SelectionIsListed ==
    ShownRows # <<>> => \/ IndexOf(ShownRows, selection) # 0
                        \/ IsFiltered /\ Len(selection) = 1 /\ selection \notin filter

\* An action is about the row the user saw when they asked for it, however the tree
\* changed while the confirmation or the form was open.
ActsOnWhatWasSeen == sent # Nothing => sent.target = sent.saw

\* After what arrives between keys, the selection is where it was, or its row is gone and
\* a session of the same agent takes over before any other row: the first that follows it
\* by name, else the last before it.
SelectionStaysNear ==
    [][Len(selection) = 2 /\ selection' # selection /\ Arrives =>
        LET rows == Rows(shown', collapsed, filter, showArchived)
            mine == {r \in Range(rows) : Len(r) = 2 /\ r[1] = selection[1]}
        IN /\ IndexOf(rows, selection) = 0
           /\ mine # {} => /\ selection' \in mine
                           /\ \A r \in mine : r[2] > selection[2] =>
                                 selection'[2] > selection[2] /\ selection'[2] <= r[2]]_treeVars

\* Tab reaches a session that waits for its user, folded, filtered out or not.
WaitingIsReached ==
    sent.kind = "next waiting" => sent.target = selection /\ IndexOf(ShownRows, selection) # 0

\* "Shows an agent this TUI just created" (agent_applied): it is listed.
CreatedAgentIsShown ==
    [][\A a \in TreeAgents : agent_applied(a) =>
        IndexOf(Rows(shown', collapsed', filter', showArchived'), <<a>>) # 0]_treeVars

\* Whatever arrives between two keys, a key acts on a listed row, a form on the row it was opened
\* for, and Tab on a session that waits (tui/app.rs).
KeysMeanWhatIsSeen ==
    /\ TreeTypeOK
    /\ SelectionIsListed
    /\ ActsOnWhatWasSeen
    /\ WaitingIsReached

=============================================================================
