----------------------------- MODULE MCClients -----------------------------
(* The programs a user faces, for TLC: the tree, forwards and panels of the *)
(* terminal UI, the progress of a pass, and the commands of the command     *)
(* line.  Each behaviour moves the one in focus and the others rest where   *)
(* they began.                                                              *)
EXTENDS TuiTree, TuiForwards, TuiPanel, Progress, CommandLine

\* Two sessions of the first agent; a filter that only keeps the second one.
TheSessions == {<<1, 1>>, <<1, 2>>}
TheFilters == {{<<1, 2>>}}

Line(op, on, variant) == [op |-> op, on |-> on, variant |-> variant]
TheLines ==
    {Line("stop", "a", "none"), Line("stop all", "none", "none"), Line("start", "a", "none"),
     Line("wait", "here", "none"), Line("apply", "b", "none"),
     Line("delete", "b", "none"), Line("exec", "here", "v"), Line("vnc", "a", "none"),
     Line("create", "b", "none"), Line("forward", "b", "none"),
     Line("watch", "b", "none")}
Leads(depth, name) == [depth |-> depth, leaf |-> name]
TheAssociations ==
    {("a" :> Leads(1, "agent.yaml")) @@ ("b" :> Leads(1, "v")),
     ("a" :> Leads(1, "v")) @@ ("b" :> Leads(0, "v"))}
TerminalSymmetry == Permutations(Terminals)

-----------------------------------------------------------------------------
VARIABLE focus
clientVars == <<treeVars, fwdVars, panelVars, progressVars, cliVars, focus>>

\* One more focus than modules: the panel is checked while turns come and go
\* and no form is opened, and while forms are opened and no session is selected.
Foci == {"tree", "forwards", "turns", "forms", "progress", "commands"}
PanelInFocus == focus \in {"turns", "forms"}

\* Where a client that is not in focus rests, of its initial states.
OthersRest ==
    /\ ~PanelInFocus => line = FALSE
    /\ focus # "progress" => follower = NewFollower("cli")
    /\ focus # "commands" =>
          /\ agentd = [serves |-> FALSE, build |-> "ours"]
          /\ agents = [a \in CmdAgents |-> [exists |-> TRUE, run |-> "Stopped", done |-> TRUE]]
          /\ assoc = CHOOSE first \in Associations : TRUE

ClientsInit ==
    /\ focus \in Foci
    /\ OthersRest
    /\ TreeInit /\ FwdInit /\ PanelInit /\ ProgressInit /\ CommandInit

ClientsNext ==
    \/ /\ focus = "tree" /\ TreeNext
       /\ UNCHANGED <<fwdVars, panelVars, progressVars, cliVars, focus>>
    \/ /\ focus = "forwards" /\ FwdNext
       /\ UNCHANGED <<treeVars, panelVars, progressVars, cliVars, focus>>
    \/ /\ PanelInFocus /\ PanelNext
       /\ focus = "turns" => form' = "none" /\ UNCHANGED <<line, edits>>
       /\ focus = "forms" => UNCHANGED <<turns, chosen>>
       /\ UNCHANGED <<treeVars, fwdVars, progressVars, cliVars, focus>>
    \/ /\ focus = "progress" /\ ProgressNext
       /\ UNCHANGED <<treeVars, fwdVars, panelVars, cliVars, focus>>
    \/ /\ focus = "commands" /\ CommandNext
       /\ UNCHANGED <<treeVars, fwdVars, panelVars, progressVars, focus>>

\* What tells one state of a behaviour from another: the client in focus.
InFocus ==
    <<focus,
      CASE focus = "tree" -> treeVars
        [] focus = "forwards" -> fwdVars
        [] PanelInFocus -> panelVars
        [] focus = "progress" -> progressVars
        [] focus = "commands" -> cliVars>>

ClientsSpec == ClientsInit /\ [][ClientsNext]_clientVars

-----------------------------------------------------------------------------
\* What a step may not do to the user: move the selection away from where it
\* was, change a form under the user's hands, show a resync, or take another
\* agent than the closest one.
ClientSteps ==
    /\ SelectionStaysNear /\ FormIsTheUsers /\ ResyncStaysOutOfSight /\ ResolvedIsTheClosest
=============================================================================
